---- MODULE Spec2Model ----
(***************************************************************************)
(* A model of crab's adaptive sparse map (AdaptSMap) and of the weighted   *)
(* graph built on it (AdaptGraph), src/src/crab/adapt_sgraph.hpp, and of   *)
(* the control-flow graph cfg_t and its reversed view cfg_rev_t,           *)
(* src/src/crab/cfg.hpp, and of the raw decoder and the ASM Cfg declared   *)
(* in src/src/asm_unmarshal.hpp and src/src/asm_cfg.hpp.                   *)
(*                                                                         *)
(* An AdaptSMap is a record                                                *)
(*   sz, dense_maxsz, sparse_ub : the three size_t fields                  *)
(*   dense      : the malloc'ed buffer, cell i of the code is dense[i+1]   *)
(*   has_sparse : sparse != nullptr                                        *)
(*   sparse     : the malloc'ed table, cell k of the code is sparse[k+1]   *)
(* Cells that malloc/realloc returned and the code never wrote hold NoElt  *)
(* (dense) or Uninit (sparse): reading one is a read of an indeterminate   *)
(* value, modelled as a choice among every value the read can yield.       *)
(***************************************************************************)
EXTENDS Integers, Sequences, FiniteSets, TLC

(* ------------------------------ bounds -------------------------------- *)

\* keys of the map under test are 0..MaxKey
MaxKey == 9
\* values stored in the map under test are 1..MaxVal
MaxVal == 2
\* number of mutating calls made on the map under test after Init
MaxMapOps == 3

\* edge weights are 1..MaxWt
MaxWt == 2
\* number of mutating calls made on the graph after its construction
MaxGraphOps == 6
\* growTo is called with 0..MaxGrow
MaxGrow == 2

\* a graph whose weight slots are watched starts with 0..MaxSlotVerts vertices
MaxSlotVerts == 3
\* number of calls made on that graph
MaxSlotOps == 5

\* basic block labels of the cfg_t built call by call are 0..MaxLabel
MaxLabel == 2
\* number of calls made on that cfg_t after its construction
MaxCfgOps == 5
\* number of statements put into one block by basic_block_t::insert
MaxStmts == 1
\* a cfg_t handed to simplify() has labels 0..MaxBuiltLabel and at most
\* MaxEdges edges
MaxBuiltLabel == 3
MaxEdges == 4
\* a cfg_t that a reversed view is built over has at most MaxRevEdges edges
MaxRevEdges == 2
\* a cfg_t whose merge pass is watched on its own has at most MaxMergeEdges edges
MaxMergeEdges == 3
\* a cfg_t whose simplify() is followed call by call has labels 0..MaxTravLabel
\* and at most MaxTravEdges edges
MaxTravLabel == 2
MaxTravEdges == 4
\* a cfg_t whose last merge pass is watched has at most MaxLastEdges edges
MaxLastEdges == 3
\* a raw program has 1..MaxProg words
MaxProg == 3
\* jump offsets are -MaxOff..MaxOff
MaxOff == 2

Keys == 0..MaxKey
Vals == 1..MaxVal
Weights == 1..MaxWt
CfgLabels == 0..MaxLabel
BuiltLabels == 0..MaxBuiltLabel
TravLabels == 0..MaxTravLabel

(* --------------------------- AdaptSMap -------------------------------- *)

sparse_threshold == 8

\* content of a sparse cell that was allocated and never written
Uninit == -1

\* content of a dense cell that was allocated and never written
NoElt == [key |-> Uninit, val |-> Uninit]

\* *v_out of a lookup that returned false: the caller's variable is untouched
NoVal == 0

Max(a, b) == IF a < b THEN b ELSE a

\* AdaptSMap(): sz(0), dense_maxsz(sparse_threshold), sparse_ub(10),
\* dense(malloc(sparse_threshold elements)), sparse(nullptr)
EmptySMap ==
    [sz |-> 0, dense_maxsz |-> sparse_threshold, sparse_ub |-> 10,
     dense |-> [i \in 1..sparse_threshold |-> NoElt],
     has_sparse |-> FALSE, sparse |-> <<>>]

smap_size(m) == m.sz

\* keys(): the keys of dense[0..sz), in buffer order
smap_keys(m) == [i \in 1..m.sz |-> m.dense[i].key]

\* elts(): the elements dense[0..sz), in buffer order
smap_elts(m) == [i \in 1..m.sz |-> m.dense[i]]

\* while (x < target) x *= 2;
RECURSIVE DoubleUntil(_, _)
DoubleUntil(x, target) == IF x < target THEN DoubleUntil(2 * x, target) ELSE x

\* key_t idx = 0; for (key_t k : keys()) sparse[k] = idx++;  on a fresh malloc
\* of ub cells: a cell no key names stays unwritten, a key met twice keeps
\* the later position.
FillSparse(m, ub) ==
    [j \in 1..ub |->
        LET at == {i \in 1..m.sz : m.dense[i].key = j - 1}
        IN  IF at = {} THEN Uninit
            ELSE (CHOOSE i \in at : \A i2 \in at : i2 <= i) - 1]

growDense(m, new_max) ==
    LET nmax == DoubleUntil(m.dense_maxsz, new_max)
        nd == [i \in 1..nmax |-> IF i <= m.dense_maxsz THEN m.dense[i] ELSE NoElt]
        m1 == [m EXCEPT !.dense_maxsz = nmax, !.dense = nd]
    IN  IF m.has_sparse THEN m1
        ELSE LET key_max ==
                    IF m.sz = 0 THEN 0
                    ELSE CHOOSE k \in {m.dense[i].key : i \in 1..m.sz} :
                            \A i \in 1..m.sz : m.dense[i].key <= k
                 ub == Max(key_max, 0) + 1
             IN  [m1 EXCEPT !.sparse_ub = ub, !.has_sparse = TRUE,
                            !.sparse = FillSparse(m, ub)]

growSparse_unfilled(m, new_ub) ==
    LET ub == DoubleUntil(m.sparse_ub, new_ub)
    IN  [m EXCEPT !.sparse_ub = ub, !.sparse = [j \in 1..ub |-> Uninit]]

growSparse(m, new_ub) ==
    LET ub == DoubleUntil(m.sparse_ub, new_ub)
    IN  [m EXCEPT !.sparse_ub = ub, !.sparse = FillSparse(m, ub)]

\* precondition: k \notin S
smap_add(m, k, v) ==
    LET m1 == IF m.dense_maxsz <= m.sz THEN growDense(m, m.sz + 1) ELSE m
        m2 == [m1 EXCEPT !.dense[m.sz + 1] = [key |-> k, val |-> v]]
        m3 == IF m2.has_sparse
              THEN LET m4 == IF m2.sparse_ub <= k THEN growSparse(m2, k + 1) ELSE m2
                   IN  [m4 EXCEPT !.sparse[k + 1] = m.sz]
              ELSE m2
    IN  [m3 EXCEPT !.sz = m.sz + 1]

\* int idx = sparse[k]: the values the read can yield.  A cell inside the
\* table that the code wrote yields what it holds.  A cell outside the table
\* or never written yields any key_t value; top stands for every value at
\* or beyond top (the callers treat all of them alike).
IndexRead(m, k, top) ==
    IF k < m.sparse_ub /\ m.sparse[k + 1] # Uninit
    THEN {m.sparse[k + 1]}
    ELSE 0..top

\* whether the read of sparse[k] is a read of an allocated, written cell
SparseReadDefined(m, k) == k < m.sparse_ub /\ m.sparse[k + 1] # Uninit

smap_elem_index_only(m, k) ==
    IF m.has_sparse
    THEN {idx < m.sz : idx \in IndexRead(m, k, m.sz)}
    ELSE {\E i \in 1..m.sz : m.dense[i].key = k}

\* elem(k): the results the call can give
smap_elem(m, k) ==
    IF m.has_sparse
    THEN {idx < m.sz /\ m.dense[idx + 1].key = k : idx \in IndexRead(m, k, m.sz)}
    ELSE {\E i \in 1..m.sz : m.dense[i].key = k}

\* lookup(k, v_out): the results the call can give, as (return value, *v_out)
smap_lookup(m, k) ==
    IF m.has_sparse
    THEN {IF idx < m.sz /\ m.dense[idx + 1].key = k
          THEN [found |-> TRUE, val |-> m.dense[idx + 1].val]
          ELSE [found |-> FALSE, val |-> NoVal] : idx \in IndexRead(m, k, m.sz)}
    ELSE LET at == {i \in 1..m.sz : m.dense[i].key = k}
         IN  IF at = {} THEN {[found |-> FALSE, val |-> NoVal]}
             ELSE {[found |-> TRUE,
                    val |-> m.dense[CHOOSE i \in at : \A i2 \in at : i <= i2].val]}

\* remove(k), first half: the position (0-based) the code overwrites with the
\* last element.  Sparse mode: idx = sparse[k].  Dense mode: the scan
\* while (e->key != k) ++e, which is not bounded by sz; it stops at the first
\* written cell holding k, and runs into unwritten memory or off the buffer
\* (position dense_maxsz here) when there is none.
smap_remove_pos(m, k) ==
    IF m.has_sparse
    THEN IndexRead(m, k, m.dense_maxsz)
    ELSE LET hit == {i \in 1..m.dense_maxsz :
                        /\ m.dense[i].key = k
                        /\ \A j \in 1..(i - 1) : m.dense[j] # NoElt /\ m.dense[j].key # k}
         IN  IF hit = {} THEN {m.dense_maxsz} ELSE {i - 1 : i \in hit}

\* remove(k), second half: --sz; repl = dense[sz]; dense[idx] = repl;
\* and, with a sparse table, sparse[repl.key] = idx
smap_remove_at_keeps_index(m, idx) ==
    LET nsz == m.sz - 1
        repl == m.dense[nsz + 1]
    IN  [m EXCEPT !.sz = nsz, !.dense[idx + 1] = repl]

smap_remove_at_drops_last(m, idx) == [m EXCEPT !.sz = @ - 1]

smap_remove_at(m, idx) ==
    LET nsz == m.sz - 1
        repl == m.dense[nsz + 1]
        m1 == [m EXCEPT !.sz = nsz, !.dense[idx + 1] = repl]
    IN  IF m.has_sparse THEN [m1 EXCEPT !.sparse[repl.key + 1] = idx] ELSE m1

\* precondition: k \in S
smap_remove(m, k) == smap_remove_at(m, CHOOSE idx \in smap_remove_pos(m, k) : TRUE)

smap_clear_frees_sparse(m) == [m EXCEPT !.sz = 0, !.has_sparse = FALSE, !.sparse = <<>>]

\* clear(): sz = 0; dense and sparse stay as they are
smap_clear(m) == [m EXCEPT !.sz = 0]


\* the table after sparse[dense[idx].key] = idx for idx = 0 .. sz-1 on the
\* table old cut or extended to ub cells: a cell no key names keeps what it
\* held (nothing, when it is new), a key at or beyond ub names no cell
OverwriteSparse(old, m, ub) ==
    [j \in 1..ub |->
        LET at == {i \in 1..m.sz : m.dense[i].key = j - 1}
        IN  IF at # {} THEN (CHOOSE i \in at : \A i2 \in at : i2 <= i) - 1
            ELSE IF j <= Len(old) THEN old[j] ELSE Uninit]

\* AdaptSMap(const AdaptSMap& o)
smap_copy(o) ==
    [sz |-> o.sz, dense_maxsz |-> o.dense_maxsz, sparse_ub |-> o.sparse_ub,
     dense |-> [i \in 1..o.dense_maxsz |-> IF i <= o.sz THEN o.dense[i] ELSE NoElt],
     has_sparse |-> o.has_sparse,
     sparse |-> IF o.has_sparse THEN OverwriteSparse(<<>>, o, o.sparse_ub) ELSE <<>>]

\* operator=(const AdaptSMap& o), this != &o
smap_assign(a, o) ==
    LET nmax == IF a.dense_maxsz < o.dense_maxsz THEN o.dense_maxsz ELSE a.dense_maxsz
        nd == [i \in 1..nmax |->
                  IF i <= o.sz THEN o.dense[i]
                  ELSE IF i <= a.dense_maxsz THEN a.dense[i] ELSE NoElt]
        a1 == [a EXCEPT !.dense_maxsz = nmax, !.dense = nd, !.sz = o.sz]
        regrow == o.has_sparse /\ (~a.has_sparse \/ a.sparse_ub < o.sparse_ub)
        ub == IF regrow THEN o.sparse_ub ELSE a.sparse_ub
        has == a.has_sparse \/ o.has_sparse
    IN  [a1 EXCEPT !.sparse_ub = ub,
                   !.has_sparse = has,
                   !.sparse = IF has THEN OverwriteSparse(a.sparse, a1, ub) ELSE <<>>]

\* whether every write sparse[dense[idx].key] = idx of a = o goes to a cell
\* of a's table
smap_assign_in_bounds(a, o) ==
    (smap_assign(a, o).has_sparse) =>
        \A i \in 1..o.sz : o.dense[i].key < smap_assign(a, o).sparse_ub

(* --------------------------- AdaptGraph ------------------------------- *)
(* A graph is a record of the class's fields.  Vertex v of the code is     *)
(* position v+1 of _preds, _succs and is_free; weight slot i is _ws[i+1].  *)

Min(a, b) == IF a < b THEN a ELSE b

Last(q) == q[Len(q)]
Front(q) == SubSeq(q, 1, Len(q) - 1)

\* AdaptGraph() : edge_count(0), every vector empty
EmptyGraph ==
    [_preds |-> <<>>, _succs |-> <<>>, _ws |-> <<>>, edge_count |-> 0,
     is_free |-> <<>>, free_id |-> <<>>, free_widx |-> <<>>]

graph_size(g) == Len(g._succs)
num_edges(g) == g.edge_count
is_empty(g) == g.edge_count = 0

\* _ws[idx] = w.  A slot at or beyond _ws.size() is outside the vector: the
\* write cannot change the vector's elements.
WriteWs(ws, idx, w) == IF idx < Len(ws) THEN [ws EXCEPT ![idx + 1] = w] ELSE ws

\* the values a read of _ws[idx] can yield: the element, or any weight when
\* the slot is outside the vector
ReadWs(ws, idx) == IF idx < Len(ws) THEN {ws[idx + 1]} ELSE Weights

new_vertex_always_appends(g) ==
    [g |-> [g EXCEPT !.is_free = Append(g.is_free, FALSE),
                     !._succs = Append(g._succs, EmptySMap),
                     !._preds = Append(g._preds, EmptySMap)],
     v |-> Len(g._succs)]

\* new_vertex(): the graph after the call and the id returned
new_vertex(g) ==
    IF Len(g.free_id) > 0
    THEN LET v == Last(g.free_id)
         IN  [g |-> [g EXCEPT !.free_id = Front(g.free_id), !.is_free[v + 1] = FALSE],
              v |-> v]
    ELSE [g |-> [g EXCEPT !.is_free = Append(g.is_free, FALSE),
                          !._succs = Append(g._succs, EmptySMap),
                          !._preds = Append(g._preds, EmptySMap)],
          v |-> Len(g._succs)]

\* while (size() < v) new_vertex();
RECURSIVE growTo(_, _)
growTo(g, v) == IF graph_size(g) < v THEN growTo(new_vertex(g).g, v) ELSE g

\* for (elt_t& e : _succs[v].elts()) { free_widx.push_back(e.val);
\*                                     _preds[e.key].remove(v); }
\* from element i (1-based) on
RECURSIVE forget_succs(_, _, _)
forget_succs(g, v, i) ==
    IF i > g._succs[v + 1].sz THEN g
    ELSE LET e == g._succs[v + 1].dense[i]
         IN  forget_succs([g EXCEPT !.free_widx = Append(g.free_widx, e.val),
                                    !._preds[e.key + 1] = smap_remove(@, v)],
                          v, i + 1)

forget_preds_skipped(g, v, i) == g

\* for (key_t k : _preds[v].keys()) _succs[k].remove(v);  from key i on
RECURSIVE forget_preds(_, _, _)
forget_preds(g, v, i) ==
    IF i > g._preds[v + 1].sz THEN g
    ELSE LET k == g._preds[v + 1].dense[i].key
         IN  forget_preds([g EXCEPT !._succs[k + 1] = smap_remove(@, v)], v, i + 1)

forget_without_free_check(g, v) ==
    [g EXCEPT !.is_free[v + 1] = TRUE, !.free_id = Append(g.free_id, v)]

forget(g, v) ==
    IF g.is_free[v + 1] THEN g
    ELSE LET g1 == forget_succs(g, v, 1)
             g2 == [g1 EXCEPT !.edge_count = @ - smap_size(g1._succs[v + 1]),
                              !._succs[v + 1] = smap_clear(@)]
             g3 == forget_preds(g2, v, 1)
             g4 == [g3 EXCEPT !.edge_count = @ - smap_size(g3._preds[v + 1]),
                              !._preds[v + 1] = smap_clear(@)]
         IN  [g4 EXCEPT !.is_free[v + 1] = TRUE, !.free_id = Append(g4.free_id, v)]

\* verts(): the ids whose is_free entry is false
verts(g) == {v \in 0..(Len(g.is_free) - 1) : ~g.is_free[v + 1]}

clear_edges(g) ==
    [g EXCEPT !._ws = <<>>,
              !._succs = [i \in 1..Len(g._succs) |->
                            IF (i - 1) \in verts(g) THEN smap_clear(g._succs[i])
                            ELSE g._succs[i]],
              !._preds = [i \in 1..Len(g._preds) |->
                            IF (i - 1) \in verts(g) THEN smap_clear(g._preds[i])
                            ELSE g._preds[i]],
              !.edge_count = 0]

graph_clear(g) == EmptyGraph

\* elem(s, d): the results the call can give
graph_elem(g, s, d) == smap_elem(g._succs[s + 1], d)

\* edge_val(s, d): size_t idx{}; _succs[s].lookup(d, &idx); return _ws[idx];
\* the values the call can give
edge_val(g, s, d) ==
    UNION {ReadWs(g._ws, IF r.found THEN r.val ELSE 0) :
              r \in smap_lookup(g._succs[s + 1], d)}

add_edge_uncounted(g, s, w, d) ==
    LET reuse == Len(g.free_widx) > 0
        idx == IF reuse THEN Last(g.free_widx) ELSE Len(g._ws)
    IN  [g EXCEPT !.free_widx = IF reuse THEN Front(@) ELSE @,
                  !._ws = IF reuse THEN WriteWs(@, idx, w) ELSE Append(@, w),
                  !._succs[s + 1] = smap_add(@, d, idx),
                  !._preds[d + 1] = smap_add(@, s, idx)]

add_edge(g, s, w, d) ==
    LET reuse == Len(g.free_widx) > 0
        idx == IF reuse THEN Last(g.free_widx) ELSE Len(g._ws)
    IN  [g EXCEPT !.free_widx = IF reuse THEN Front(@) ELSE @,
                  !._ws = IF reuse THEN WriteWs(@, idx, w) ELSE Append(@, w),
                  !._succs[s + 1] = smap_add(@, d, idx),
                  !._preds[d + 1] = smap_add(@, s, idx),
                  !.edge_count = @ + 1]

\* update_edge(s, w, d): the graphs the call can leave
update_edge(g, s, w, d) ==
    UNION {IF r.found
           THEN {[g EXCEPT !._ws = WriteWs(@, r.val, Min(x, w))] : x \in ReadWs(g._ws, r.val)}
           ELSE {add_edge(g, s, w, d)} : r \in smap_lookup(g._succs[s + 1], d)}

\* set_edge(s, w, d): the graphs the call can leave
set_edge(g, s, w, d) ==
    {IF r.found THEN [g EXCEPT !._ws = WriteWs(@, r.val, w)]
                ELSE add_edge(g, s, w, d) : r \in smap_lookup(g._succs[s + 1], d)}

(* ------------------------------- cfg_t -------------------------------- *)
(* A cfg_t is a record of the class's fields: m_entry, m_exit (NoExit for   *)
(* std::nullopt) and m_blocks, a function from the labels that are keys to  *)
(* blocks.  A block is a record of m_ts, m_prev and m_next, each a          *)
(* sequence in the order of the std::vector.  A statement is a number.      *)

\* std::nullopt as the value of m_exit
NoExit == -1

\* basic_block_t(bb_id): no statements, no edges
EmptyBlock == [m_ts |-> <<>>, m_prev |-> <<>>, m_next |-> <<>>]

\* cfg_t(entry) is cfg_ctor(entry, NoExit); cfg_t(entry, exit) records the
\* exit label.  Both emplace the entry block only.
cfg_ctor(entry, exit) ==
    [m_entry |-> entry, m_exit |-> exit, m_blocks |-> (entry :> EmptyBlock)]

set_exit(c, exit) == [c EXCEPT !.m_exit = exit]

has_exit(c) == c.m_exit # NoExit

BlockLabels(c) == DOMAIN c.m_blocks

\* std::find(c.begin(), c.end(), e) != c.end()
Contains(q, e) == \E i \in 1..Len(q) : q[i] = e

insert_adjacent_unchecked(q, e) == Append(q, e)

insert_adjacent(q, e) == IF Contains(q, e) THEN q ELSE Append(q, e)

\* c.erase(std::remove(c.begin(), c.end(), e), c.end())
remove_adjacent(q, e) == SelectSeq(q, LAMBDA x : x # e)

operator_rshift_one_sided(c, a, b) ==
    [c EXCEPT !.m_blocks[a].m_next = insert_adjacent(@, b)]

\* a >> b on the blocks labelled a and b
operator_rshift(c, a, b) ==
    [c EXCEPT !.m_blocks[a].m_next = insert_adjacent(@, b),
              !.m_blocks[b].m_prev = insert_adjacent(@, a)]

\* a -= b on the blocks labelled a and b
operator_minus(c, a, b) ==
    [c EXCEPT !.m_blocks[a].m_next = remove_adjacent(@, b),
              !.m_blocks[b].m_prev = remove_adjacent(@, a)]

\* basic_block_t::insert<T>(args): m_ts.emplace_back
insert_statement(c, bb_id, s) == [c EXCEPT !.m_blocks[bb_id].m_ts = Append(@, s)]

insert_replaces(c, bb_id) ==
    [c EXCEPT !.m_blocks = (bb_id :> EmptyBlock) @@ @]

insert(c, bb_id) ==
    IF bb_id \in BlockLabels(c) THEN c
    ELSE [c EXCEPT !.m_blocks = @ @@ (bb_id :> EmptyBlock)]

\* what a call leaves: the cfg_t and whether it returned ("ok") or ended in
\* CRAB_ERROR ("fatal")
Ok(c) == [c |-> c, outcome |-> "ok"]
Fatal(c) == [c |-> c, outcome |-> "fatal"]

remove_dead_edges_skipped(c, dead_edges, i) == c

\* for (auto p : dead_edges) (*p.first) -= (*p.second);  from edge i on
RECURSIVE remove_dead_edges(_, _, _)
remove_dead_edges(c, dead_edges, i) ==
    IF i > Len(dead_edges) THEN c
    ELSE remove_dead_edges(operator_minus(c, dead_edges[i][1], dead_edges[i][2]),
                           dead_edges, i + 1)

remove_refused_entry_only(c, bb_id) == bb_id = c.m_entry

\* the two checks at the head of remove: bb_id == m_entry, m_exit && *m_exit == bb_id
remove_refused(c, bb_id) == bb_id = c.m_entry \/ (has_exit(c) /\ c.m_exit = bb_id)

remove(c, bb_id) ==
    IF remove_refused(c, bb_id) THEN Fatal(c)
    ELSE IF bb_id \notin BlockLabels(c) THEN Fatal(c)
    ELSE LET bb == c.m_blocks[bb_id]
             preds == SelectSeq(bb.m_prev, LAMBDA id : id # bb_id)
             succs == SelectSeq(bb.m_next, LAMBDA id : id # bb_id)
             dead_edges == [i \in 1..Len(preds) |-> <<preds[i], bb_id>>]
                               \o [i \in 1..Len(succs) |-> <<bb_id, succs[i]>>]
         IN  IF \E i \in 1..Len(dead_edges) :
                    \/ dead_edges[i][1] \notin BlockLabels(c)
                    \/ dead_edges[i][2] \notin BlockLabels(c)
             THEN Fatal(c)
             ELSE LET c1 == remove_dead_edges(c, dead_edges, 1)
                  IN  Ok([c1 EXCEPT !.m_blocks =
                                [l \in (BlockLabels(c1) \ {bb_id}) |-> c1.m_blocks[l]]])

\* has_one_child / has_one_parent: std::distance over next_nodes / prev_nodes
has_one_child(c, b) == Len(c.m_blocks[b].m_next) = 1
has_one_parent(c, b) == Len(c.m_blocks[b].m_prev) = 1

move_back_to_front(c, parent, cur) ==
    [c EXCEPT !.m_blocks[parent].m_ts = c.m_blocks[cur].m_ts \o @]

\* parent.move_back(cur): the statements of cur go to the back of parent's
\* (of its own, when a block whose only edge is a self-loop is its own parent;
\* the remove that follows then ends in CRAB_ERROR)
move_back(c, parent, cur) ==
    [c EXCEPT !.m_blocks[parent].m_ts = @ \o c.m_blocks[cur].m_ts]

\* merge_blocks_rec(curId, visited) on a record [c, visited, outcome].  The
\* loop over cur.next_blocks() runs over the vector as it is when the loop
\* starts: a call made from the loop changes cur.m_next only when cur has a
\* single child that is merged into cur, and then the loop is at its end.
RECURSIVE merge_blocks_rec(_, _)
RECURSIVE merge_next_blocks(_, _, _)
merge_blocks_rec(st, curId) ==
    IF st.outcome # "ok" \/ curId \in st.visited THEN st
    ELSE IF curId \notin BlockLabels(st.c) THEN [st EXCEPT !.outcome = "fatal"]
    ELSE LET c == st.c
             cur == c.m_blocks[curId]
             seen == [st EXCEPT !.visited = @ \cup {curId}]
         IN  IF has_one_child(c, curId) /\ has_one_parent(c, curId)
             THEN LET parent == cur.m_prev[1]
                      child == cur.m_next[1]
                  IN  IF parent \notin BlockLabels(c) \/ child \notin BlockLabels(c)
                      THEN [seen EXCEPT !.outcome = "fatal"]
                      ELSE IF has_one_child(c, parent)
                      THEN LET r == remove(move_back(c, parent, curId), curId)
                           IN  IF r.outcome # "ok"
                               THEN [c |-> r.c, visited |-> st.visited, outcome |-> "fatal"]
                               ELSE merge_blocks_rec(
                                        [c |-> operator_rshift(r.c, parent, child),
                                         visited |-> st.visited, outcome |-> "ok"],
                                        child)
                      ELSE merge_next_blocks(seen, cur.m_next, 1)
             ELSE merge_next_blocks(seen, cur.m_next, 1)

\* for (auto n : cur.next_blocks()) merge_blocks_rec(n, visited);  from n = ns[i] on
merge_next_blocks(st, ns, i) ==
    IF i > Len(ns) THEN st
    ELSE merge_next_blocks(merge_blocks_rec(st, ns[i]), ns, i + 1)

merge_blocks_skipped(c) == Ok(c)

\* visited_t visited; merge_blocks_rec(entry(), visited);
merge_blocks(c) ==
    LET st == merge_blocks_rec([c |-> c, visited |-> {}, outcome |-> "ok"], c.m_entry)
    IN  [c |-> st.c, outcome |-> st.outcome]

\* cfg_t.next_nodes(curId) of the AnyCfg that mark_alive_blocks walks: the
\* m_next of the block for a cfg_t, its m_prev for a cfg_rev_t
next_nodes(c, rev, curId) ==
    IF rev THEN c.m_blocks[curId].m_prev ELSE c.m_blocks[curId].m_next

\* mark_alive_blocks(curId, cfg, visited) on a record [visited, outcome];
\* next_nodes of a label that is not a key ends in CRAB_ERROR (get_node)
RECURSIVE mark_alive_blocks(_, _, _, _)
RECURSIVE mark_alive_children(_, _, _, _, _)
mark_alive_blocks(c, rev, curId, st) ==
    IF st.outcome # "ok" \/ curId \in st.visited THEN st
    ELSE IF curId \notin BlockLabels(c)
    THEN [visited |-> st.visited \cup {curId}, outcome |-> "fatal"]
    ELSE mark_alive_children(c, rev, next_nodes(c, rev, curId), 1,
                             [st EXCEPT !.visited = @ \cup {curId}])

mark_alive_children(c, rev, ns, i, st) ==
    IF i > Len(ns) THEN st
    ELSE mark_alive_children(c, rev, ns, i + 1, mark_alive_blocks(c, rev, ns[i], st))

\* for (auto bb_id : dead) remove(bb_id), for a set in which every remove
\* returns: the order of the calls does not change what is left
RECURSIVE remove_all(_, _)
remove_all(c, dead) ==
    IF dead = {} THEN c
    ELSE LET bb_id == CHOOSE l \in dead : \A l2 \in dead : l <= l2
         IN  remove_all(remove(c, bb_id).c, dead \ {bb_id})

\* the labels of dead on which remove ends in CRAB_ERROR
Unremovable(c, dead) == {l \in dead : remove(c, l).outcome # "ok"}

\* for (auto bb_id : dead) remove(bb_id): the states the loop can leave.
\* dead is an unordered_set, the order of the loop is not fixed: when one
\* of the calls ends in CRAB_ERROR, any of the other blocks may have been
\* removed before it.
sweep(c, dead) ==
    IF Unremovable(c, dead) = {} THEN {Ok(remove_all(c, dead))}
    ELSE {Fatal(remove_all(c, gone)) : gone \in SUBSET (dead \ Unremovable(c, dead))}

remove_unreachable_blocks_skipped(c) == {Ok(c)}

\* mark from the entry over the forward edges, delete the blocks that were
\* not marked
remove_unreachable_blocks(c) ==
    LET alive == mark_alive_blocks(c, FALSE, c.m_entry, [visited |-> {}, outcome |-> "ok"])
    IN  IF alive.outcome # "ok" THEN {Fatal(c)}
        ELSE sweep(c, BlockLabels(c) \ alive.visited)

\* remove_useless_blocks(): only when an exit is set; mark from the exit
\* over the reverse edges, delete the blocks that were not marked
remove_useless_blocks(c) ==
    IF ~has_exit(c) THEN {Ok(c)}
    ELSE LET useful == mark_alive_blocks(c, TRUE, c.m_exit, [visited |-> {}, outcome |-> "ok"])
         IN  IF useful.outcome # "ok" THEN {Fatal(c)}
             ELSE sweep(c, BlockLabels(c) \ useful.visited)

merge_blocks_twice_skipped(c) == Ok(c)

\* merge_blocks(); merge_blocks();  the second call is not reached when the
\* first ends in CRAB_ERROR
merge_blocks_twice(c) ==
    LET r == merge_blocks(c)
    IN  IF r.outcome = "ok" THEN merge_blocks(r.c) ELSE r

\* simplify(): the states the call can leave.  A step that ends in
\* CRAB_ERROR ends the call.
simplify(c) ==
    LET r1 == merge_blocks(c)
    IN  IF r1.outcome # "ok" THEN {r1}
        ELSE UNION {IF r2.outcome # "ok" THEN {r2}
                    ELSE {IF r3.outcome # "ok" THEN r3 ELSE merge_blocks_twice(r3.c) :
                             r3 \in remove_useless_blocks(r2.c)} :
                       r2 \in remove_unreachable_blocks(r1.c)}

\* simplify() up to remove_useless_blocks(): the states the three statements
\* can leave
simplify_upto_removals(c) ==
    LET r1 == merge_blocks(c)
    IN  IF r1.outcome # "ok" THEN {r1}
        ELSE UNION {IF r2.outcome # "ok" THEN {r2} ELSE remove_useless_blocks(r2.c) :
                       r2 \in remove_unreachable_blocks(r1.c)}

simplify_upto_last_without_second_merge(c) == simplify_upto_removals(c)

\* simplify() up to its last statement: the states in which the third
\* merge_blocks() is called, or in which the call has ended in CRAB_ERROR
simplify_upto_last(c) ==
    {IF r3.outcome # "ok" THEN r3 ELSE merge_blocks(r3.c) : r3 \in simplify_upto_removals(c)}

(***************************************************************************)
(* simplify() call by call.  The recursion of merge_blocks_rec and of      *)
(* mark_alive_blocks is kept as a stack of frames [ns, i]: the labels the   *)
(* frame calls the function on, and the next one to call it on.  A frame    *)
(* of a loop over next_blocks holds the vector as it is when the loop       *)
(* starts; the frame of merge_blocks(), of a mark pass and of the call      *)
(* merge_blocks_rec(child) after a merge holds the one label.  A walk is a  *)
(* record [c, stack, visited, entered, outcome]; entered counts, per label, *)
(* the calls that got past the visited check.                               *)
(***************************************************************************)
Frame(ns) == [ns |-> ns, i |-> 1]

\* the stack with the top frame moved to its next label
Advance(stack) == [stack EXCEPT ![Len(stack)].i = @ + 1]

\* the top frame has made all its calls: the function returns
Returns(st) == Last(st.stack).i > Len(Last(st.stack).ns)

\* the label the top frame calls the function on next
Callee(st) == Last(st.stack).ns[Last(st.stack).i]

Enter(st, curId) == [st EXCEPT !.entered[curId] = @ + 1]

merge_blocks_step_forgets_visited(st) ==
    IF Returns(st) THEN [st EXCEPT !.stack = Front(@)]
    ELSE LET curId == Callee(st)
         IN  IF curId \notin BlockLabels(st.c) THEN [st EXCEPT !.outcome = "fatal"]
             ELSE [Enter(st, curId) EXCEPT
                      !.stack = Append(Advance(@), Frame(st.c.m_blocks[curId].m_next))]

\* one call of merge_blocks_rec up to its first recursive call, or one return
merge_blocks_step(st) ==
    IF Returns(st) THEN [st EXCEPT !.stack = Front(@)]
    ELSE LET curId == Callee(st)
             c == st.c
             called == [st EXCEPT !.stack = Advance(@)]
         IN  IF curId \in st.visited THEN called
             ELSE IF curId \notin BlockLabels(c) THEN [called EXCEPT !.outcome = "fatal"]
             ELSE LET cur == c.m_blocks[curId]
                      seen == [Enter(called, curId) EXCEPT !.visited = @ \cup {curId}]
                      loop == [seen EXCEPT !.stack = Append(@, Frame(cur.m_next))]
                  IN  IF has_one_child(c, curId) /\ has_one_parent(c, curId)
                      THEN LET parent == cur.m_prev[1]
                               child == cur.m_next[1]
                           IN  IF parent \notin BlockLabels(c) \/ child \notin BlockLabels(c)
                               THEN [seen EXCEPT !.outcome = "fatal"]
                               ELSE IF has_one_child(c, parent)
                               THEN LET r == remove(move_back(c, parent, curId), curId)
                                        erased == Enter(called, curId)
                                    IN  IF r.outcome # "ok"
                                        THEN [erased EXCEPT !.c = r.c, !.outcome = "fatal"]
                                        ELSE [erased EXCEPT
                                                 !.c = operator_rshift(r.c, parent, child),
                                                 !.stack = Append(@, Frame(<<child>>))]
                               ELSE loop
                      ELSE loop

\* one call of mark_alive_blocks up to its first recursive call, or one return
mark_alive_step(st, rev) ==
    IF Returns(st) THEN [st EXCEPT !.stack = Front(@)]
    ELSE LET curId == Callee(st)
             called == [st EXCEPT !.stack = Advance(@)]
         IN  IF curId \in st.visited THEN called
             ELSE IF curId \notin BlockLabels(st.c)
             THEN [called EXCEPT !.visited = @ \cup {curId}, !.outcome = "fatal"]
             ELSE [Enter(called, curId) EXCEPT
                      !.visited = @ \cup {curId},
                      !.stack = Append(@, Frame(next_nodes(st.c, rev, curId)))]

\* the passes of simplify() in the order of its body
NextPass(phase) ==
    CASE phase = "merge1" -> "unreachable"
      [] phase = "unreachable" -> "useless"
      [] phase = "useless" -> "merge2"
      [] phase = "merge2" -> "merge3"
      [] phase = "merge3" -> "done"

\* the label a pass starts its walk from
StartOf(c, phase) == IF phase = "useless" THEN c.m_exit ELSE c.m_entry

(***************************************************************************)
(* cfg_rev_t: the reversed view of a cfg_t.  The view holds a reference to *)
(* the cfg_t and _rev_bbs, a map built once by the constructor from the    *)
(* blocks the cfg_t has at that moment; every other member reads the       *)
(* cfg_t through the reference.  A read returns [outcome, val].            *)
(***************************************************************************)
(* freed holds the labels of _rev_bbs whose basic_block_t the cfg_t has      *)
(* destroyed since (m_blocks owns the blocks through unique_ptr); a block    *)
(* inserted later under the same label is another object.                    *)
\* no view has been constructed
NoRev == [made |-> FALSE, _rev_bbs |-> {}, freed |-> {}]

\* cfg_rev_t(cfg_ref_t): one basic_block_rev_t per block of the cfg_t
cfg_rev_ctor(c) == [made |-> TRUE, _rev_bbs |-> BlockLabels(c), freed |-> {}]

Read(outcome, val) == [outcome |-> outcome, val |-> val]

rev_entry(c) ==
    IF ~has_exit(c) THEN Read("fatal", NoExit) ELSE Read("ok", c.m_exit)

rev_exit(c) == c.m_entry

rev_has_exit(c) == TRUE

\* cfg_t::get_node is fatal on a label that is not a key of m_blocks
rev_next_nodes_same_direction(c, bb) ==
    IF bb \notin BlockLabels(c) THEN Read("fatal", <<>>)
    ELSE Read("ok", c.m_blocks[bb].m_next)

rev_next_nodes(c, bb) ==
    IF bb \notin BlockLabels(c) THEN Read("fatal", <<>>)
    ELSE Read("ok", c.m_blocks[bb].m_prev)

rev_prev_nodes(c, bb) ==
    IF bb \notin BlockLabels(c) THEN Read("fatal", <<>>)
    ELSE Read("ok", c.m_blocks[bb].m_next)

\* rbegin() .. rend() of a statement list
Reverse(q) == [i \in 1..Len(q) |-> q[Len(q) + 1 - i]]

\* basic_block_rev_t over the block _bb refers to; a reference to a block
\* that the cfg_t has erased since dangles, and reading through it can give
\* any block
basic_block_rev(bbs, bb) ==
    [label |-> bb,
     stmts |-> Reverse(bbs[bb].m_ts),
     next_blocks |-> bbs[bb].m_prev,
     prev_blocks |-> bbs[bb].m_next]

rev_get_node(c, rv, bb_id) ==
    IF bb_id \notin rv._rev_bbs THEN {Read("fatal", <<>>)}
    ELSE IF bb_id \in BlockLabels(c) /\ bb_id \notin rv.freed
         THEN {Read("ok", basic_block_rev(c.m_blocks, bb_id))}
         ELSE {Read("undefined", <<>>)}

(* ------------------- raw decoder and ASM Cfg --------------------------- *)
(* A raw instruction is a record of the fields of struct ebpf_inst; offset  *)
(* and imm are signed.  A 64-bit immediate is its eight bytes, least        *)
(* significant first.  A Label is a record: pc is the index of the raw      *)
(* instruction; to is -1 for a primary label and the target of the edge for *)
(* a synthetic one, neg tells the two synthetic labels of a branch apart.   *)

EBPF_CLS_LD == 0
EBPF_CLS_JMP == 5
EBPF_CLS_ALU64 == 7
EBPF_SRC_IMM == 0
EBPF_SIZE_DW == 24
EBPF_MODE_IMM == 0
EBPF_OP_LDDW == EBPF_CLS_LD + EBPF_MODE_IMM + EBPF_SIZE_DW
EBPF_OP_JA == EBPF_CLS_JMP + 0
EBPF_OP_JEQ_IMM == EBPF_CLS_JMP + EBPF_SRC_IMM + 16
EBPF_OP_EXIT == EBPF_CLS_JMP + 144
EBPF_OP_MOV64_IMM == EBPF_CLS_ALU64 + EBPF_SRC_IMM + 176

ebpf_inst(opcode, dst, src, offset, imm) ==
    [opcode |-> opcode, dst |-> dst, src |-> src, offset |-> offset, imm |-> imm]

\* the four bytes of an int32_t taken as uint32_t, least significant first
Bytes32(x) == [j \in 1..4 |-> (x \div (2 ^ (8 * (j - 1)))) % 256]

lddw_imm_sign_extended(imm, next_imm) ==
    Bytes32(imm) \o (IF imm < 0 THEN [j \in 1..4 |-> 255] ELSE Bytes32(next_imm))

\* the 64-bit immediate of an LDDW pair: the second word's imm is the high
\* half, the first word's imm the low half
lddw_imm(imm, next_imm) == Bytes32(imm) \o Bytes32(next_imm)

primary(pc) == [pc |-> pc, to |-> -1, neg |-> FALSE]

synthetic(from, to, neg) == [pc |-> from.pc, to |-> to.pc, neg |-> neg]

\* the indexes at which an instruction starts, from pc on: an LDDW takes
\* two slots
RECURSIVE InstStarts(_, _)
InstStarts(prog, pc) ==
    IF pc >= Len(prog) THEN {}
    ELSE {pc} \cup InstStarts(prog, pc + (IF prog[pc + 1].opcode = EBPF_OP_LDDW THEN 2 ELSE 1))

Decoded(inst, width, note) == [outcome |-> "inst", inst |-> inst, width |-> width, note |-> note]

Malformed(why) == [outcome |-> "error", inst |-> [tag |-> "none"], width |-> 0, note |-> why]

jump_unvalidated(prog, pc, cond) ==
    Decoded([tag |-> "Jmp", cond |-> cond, target |-> primary(pc + prog[pc + 1].offset + 1)], 1, "")

\* a jump at pc: the target is the label pc + offset + 1, and must be the
\* start of an instruction of the program
jump(prog, pc, cond) ==
    LET target == pc + prog[pc + 1].offset + 1
    IN  IF target \notin InstStarts(prog, 0)
        THEN Malformed(IF target < 0 \/ target >= Len(prog) THEN "jump out of range"
                       ELSE "jump into the middle of lddw")
        ELSE Decoded([tag |-> "Jmp", cond |-> cond, target |-> primary(target)], 1, "")

\* the instruction at pc
decode_one(prog, pc) ==
    LET inst == prog[pc + 1]
    IN  IF inst.opcode = EBPF_OP_LDDW
        THEN IF pc + 1 >= Len(prog) THEN Malformed("incomplete lddw")
             ELSE LET next == prog[pc + 2]
                  IN  IF next.opcode # 0 \/ next.dst # 0 \/ next.src # 0 \/ next.offset # 0
                      THEN Malformed("invalid lddw")
                      ELSE Decoded([tag |-> "Bin", op |-> "MOV", dst |-> inst.dst,
                                    v |-> lddw_imm(inst.imm, next.imm), lddw |-> TRUE], 2, "")
        ELSE IF inst.opcode = EBPF_OP_JA THEN jump(prog, pc, [op |-> "always"])
        ELSE IF inst.opcode = EBPF_OP_JEQ_IMM
        THEN jump(prog, pc, [op |-> "EQ", left |-> inst.dst, right |-> inst.imm])
        ELSE IF inst.opcode = EBPF_OP_EXIT THEN Decoded([tag |-> "Exit"], 1, "")
        ELSE IF inst.opcode = EBPF_OP_MOV64_IMM
        THEN Decoded([tag |-> "Bin", op |-> "MOV", dst |-> inst.dst,
                      v |-> Bytes32(inst.imm) \o Bytes32(IF inst.imm < 0 THEN -1 ELSE 0),
                      lddw |-> FALSE], 1, "")
        ELSE Decoded([tag |-> "Undefined", opcode |-> inst.opcode], 1, "bad instruction")

\* the decoder's state: the program, the index of the next word, the
\* labelled instructions so far, and whether it goes on, is done or failed
unmarshal_start(prog) ==
    [prog |-> prog, pc |-> 0, insts |-> <<>>, notes |-> <<>>, stage |-> "decode"]

\* one instruction decoded; an error ends the decoding and leaves the error
\* in place of the instruction sequence
unmarshal_step(d) ==
    LET r == decode_one(d.prog, d.pc)
    IN  IF r.outcome = "error"
        THEN [d EXCEPT !.insts = <<>>, !.notes = Append(@, r.note), !.stage = "error"]
        ELSE [d EXCEPT !.insts = Append(@, [label |-> primary(d.pc), inst |-> r.inst]),
                       !.notes = Append(@, r.note),
                       !.pc = d.pc + r.width,
                       !.stage = IF d.pc + r.width >= Len(d.prog) THEN "decoded" ELSE "decode"]

IsCondJmp(inst) == inst.tag = "Jmp" /\ inst.cond.op # "always"

\* a sequence without its duplicates, first occurrences kept
RECURSIVE Dedup(_)
Dedup(q) ==
    IF q = <<>> THEN <<>>
    ELSE LET front == Dedup(SubSeq(q, 1, Len(q) - 1))
         IN  IF \E i \in 1..Len(front) : front[i] = q[Len(q)] THEN front
             ELSE Append(front, q[Len(q)])

\* the labels a of order, in order, with b in next(a)
PrevList(nexts, order, b) ==
    SelectSeq(order, LAMBDA a : \E i \in 1..Len(nexts[a]) : nexts[a][i] = b)

NoCfg == [graph |-> <<>>, ordered_labels |-> <<>>]

\* Cfg::make: one block per label, next-lists from the jump structure
\* (jump target, then fall-through), prev-lists symmetric
Cfg_make(insts) ==
    LET order == [i \in 1..Len(insts) |-> insts[i].label]
        nextOf(i) ==
            LET inst == insts[i].inst
                fall == IF i < Len(insts) THEN <<insts[i + 1].label>> ELSE <<>>
            IN  IF inst.tag = "Exit" THEN <<>>
                ELSE IF inst.tag = "Jmp"
                THEN IF IsCondJmp(inst) THEN Dedup(<<inst.target>> \o fall)
                     ELSE <<inst.target>>
                ELSE fall
        nexts == [l \in {order[i] : i \in 1..Len(order)} |->
                     nextOf(CHOOSE i \in 1..Len(order) : order[i] = l)]
    IN  [graph |-> [l \in DOMAIN nexts |->
                      [insts |-> <<insts[CHOOSE i \in 1..Len(order) : order[i] = l].inst>>,
                       nextlist |-> nexts[l],
                       prevlist |-> PrevList(nexts, order, l)]],
         ordered_labels |-> order]

\* the condition that holds when cond does not
negate(cond) == [cond EXCEPT !.op = IF @ = "EQ" THEN "NE" ELSE "EQ"]

\* the conditional jump that ends block l of c, if there is one
HasCondJmp(c, l) ==
    LET b == c.graph[l]
    IN  Len(b.insts) > 0 /\ IsCondJmp(b.insts[Len(b.insts)])

\* the two edges of the branch at l: the jump target, taken when the
\* condition holds, and the fall-through, taken when it does not; a branch
\* whose only successor is its target falls through to the target
BranchEdges(c, l) ==
    LET b == c.graph[l]
        jmp == b.insts[Len(b.insts)]
        others == SelectSeq(b.nextlist, LAMBDA x : x # jmp.target)
        fall == IF others # <<>> THEN others[1] ELSE jmp.target
    IN  <<[label |-> synthetic(l, jmp.target, FALSE), cond |-> jmp.cond, to |-> jmp.target],
          [label |-> synthetic(l, fall, TRUE), cond |-> negate(jmp.cond), to |-> fall]>>

to_nondet_keeps_jumps(c, expand_locks) == c

\* to_nondet: every conditional jump becomes two synthetic blocks of one
\* Assume each, between the branch block and the two targets
to_nondet(c, expand_locks) ==
    LET old == {c.ordered_labels[i] : i \in 1..Len(c.ordered_labels)}
        branches == {l \in old : HasCondJmp(c, l)}
        syn == UNION {{BranchEdges(c, l)[1].label, BranchEdges(c, l)[2].label} : l \in branches}
        edgeOf(x) ==
            LET l == primary(x.pc)
            IN  IF BranchEdges(c, l)[1].label = x THEN BranchEdges(c, l)[1]
                ELSE BranchEdges(c, l)[2]
        RECURSIVE Order(_)
        Order(i) ==
            IF i > Len(c.ordered_labels) THEN <<>>
            ELSE LET l == c.ordered_labels[i]
                 IN  (IF l \in branches
                      THEN <<l, BranchEdges(c, l)[1].label, BranchEdges(c, l)[2].label>>
                      ELSE <<l>>) \o Order(i + 1)
        order == Order(1)
        nexts == [x \in old \cup syn |->
                    IF x \in syn THEN <<edgeOf(x).to>>
                    ELSE IF x \in branches
                    THEN <<BranchEdges(c, x)[1].label, BranchEdges(c, x)[2].label>>
                    ELSE c.graph[x].nextlist]
    IN  [graph |-> [x \in old \cup syn |->
                      [insts |-> IF x \in syn THEN <<[tag |-> "Assume", cond |-> edgeOf(x).cond]>>
                                 ELSE IF x \in branches
                                 THEN SubSeq(c.graph[x].insts, 1, Len(c.graph[x].insts) - 1)
                                 ELSE c.graph[x].insts,
                       nextlist |-> nexts[x],
                       prevlist |-> PrevList(nexts, order, x)]],
         ordered_labels |-> order]

(* ----------------------- the map under test --------------------------- *)

VARIABLES
    m,        \* the AdaptSMap under test
    live,     \* for each key, the value it was added with, or NoVal when it is not live
    mops,     \* number of mutating calls made so far
    mlast,    \* the last call: [op, key, outcome]
    mprev,    \* the map before the last call
    g,        \* the AdaptGraph under test
    gops,     \* number of mutating calls made on the graph so far
    glast,    \* the last call on the graph: [op, s, d, w, outcome]; s is the
              \* vertex of forget and the id new_vertex returned
    gprev,    \* the graph before the last call
    gpeak,    \* the largest number of edges the graph has held at once
    mpeak,    \* the largest size the map has had
    cfg,      \* the cfg_t under test
    cops,     \* number of calls made on the cfg_t after its construction
    clast,    \* the last call on the cfg_t: [op, a, b, outcome]
    cprev,    \* the cfg_t before the last call
    rview,    \* the cfg_rev_t built over cfg: whether it exists, and its _rev_bbs
    mo,       \* a second AdaptSMap: the other side of a copy
    asm,      \* the decoder and the ASM Cfg built from its output
    trav      \* a simplify() call in progress on cfg: its pass, call stack and visited set

vars == <<m, live, mops, mlast, mprev, g, gops, glast, gprev, gpeak, mpeak,
          cfg, cops, clast, cprev, rview, mo, asm, trav>>

\* no simplify() call is in progress
IdleTrav == [phase |-> "idle", stack |-> <<>>, visited |-> {}, entered |-> <<>>]

\* the decoder and the ASM Cfg while another component is under test
IdleAsm == [dec |-> unmarshal_start(<<>>), built |-> "none", cfg |-> NoCfg, nondet |-> NoCfg]

\* the cfg_t while the map or the graph is under test
IdleCfg == cfg_ctor(0, NoExit)

CfgCall(op, a, b, outcome) == [op |-> op, a |-> a, b |-> b, outcome |-> outcome]

Call(op, s, d, w) == [op |-> op, s |-> s, d |-> d, w |-> w, outcome |-> "ok"]

\* a run of add calls on a map m0, made in the order of ks, key k with value ValOf(k)
ValOf(k) == (k % MaxVal) + 1

RECURSIVE AddAll(_, _)
AddAll(m0, ks) ==
    IF ks = <<>> THEN m0
    ELSE AddAll(smap_add(m0, Head(ks), ValOf(Head(ks))), Tail(ks))

\* the maps Init starts from: the constructed map, and the constructed map
\* after sparse_threshold add calls with ascending or descending keys
Ascending == [i \in 1..sparse_threshold |-> i - 1]
Skipping == [i \in 1..sparse_threshold |-> IF i < sparse_threshold THEN i - 1 ELSE i]
Descending == [i \in 1..sparse_threshold |-> MaxKey + 1 - i]
PreFills == {<<>>, Ascending, Skipping, Descending}

Range(s) == {s[i] : i \in 1..Len(s)}

MapInit ==
    /\ \E ks \in PreFills :
        /\ m = AddAll(EmptySMap, ks)
        /\ live = [k \in Keys |-> IF k \in Range(ks) THEN ValOf(k) ELSE NoVal]
    /\ mops = 0
    /\ mlast = [op |-> "init", key |-> 0, outcome |-> "ok"]
    /\ mprev = EmptySMap
    /\ mpeak = m.sz
    /\ g = EmptyGraph
    /\ gops = 0
    /\ glast = Call("init", 0, 0, 0)
    /\ gprev = EmptyGraph
    /\ gpeak = 0
    /\ cfg = IdleCfg
    /\ cops = 0
    /\ clast = CfgCall("init", 0, 0, "ok")
    /\ cprev = IdleCfg
    /\ rview = NoRev
    /\ mo = EmptySMap
    /\ asm = IdleAsm
    /\ trav = IdleTrav

MapAdd(k, v) ==
    /\ mops < MaxMapOps
    /\ mlast.outcome = "ok"
    /\ live[k] = NoVal
    /\ m' = smap_add(m, k, v)
    /\ live' = [live EXCEPT ![k] = v]
    /\ mops' = mops + 1
    /\ mlast' = [op |-> "add", key |-> k, outcome |-> "ok"]
    /\ mprev' = m
    /\ mpeak' = Max(mpeak, m'.sz)
    /\ UNCHANGED <<g, gops, glast, gprev, gpeak, cfg, cops, clast, cprev, rview, mo, asm, trav>>

MapRemove(k) ==
    /\ mops < MaxMapOps
    /\ mlast.outcome = "ok"
    /\ live[k] # NoVal
    /\ m' = smap_remove(m, k)
    /\ live' = [live EXCEPT ![k] = NoVal]
    /\ mops' = mops + 1
    /\ mlast' = [op |-> "remove", key |-> k, outcome |-> "ok"]
    /\ mprev' = m
    /\ mpeak' = Max(mpeak, m'.sz)
    /\ UNCHANGED <<g, gops, glast, gprev, gpeak, cfg, cops, clast, cprev, rview, mo, asm, trav>>

MapClear ==
    /\ mops < MaxMapOps
    /\ mlast.outcome = "ok"
    /\ m' = smap_clear(m)
    /\ live' = [k \in Keys |-> NoVal]
    /\ mops' = mops + 1
    /\ mlast' = [op |-> "clear", key |-> 0, outcome |-> "ok"]
    /\ mprev' = m
    /\ mpeak' = Max(mpeak, m'.sz)
    /\ UNCHANGED <<g, gops, glast, gprev, gpeak, cfg, cops, clast, cprev, rview, mo, asm, trav>>

MapNext ==
    \/ \E k \in Keys, v \in Vals : MapAdd(k, v)
    \/ \E k \in Keys : MapRemove(k)
    \/ MapClear

\* remove(k) called although k is not in the map.  The code has no check:
\* with sz = 0 the decrement wraps and dense[sz] is read far off the buffer;
\* otherwise the position found by smap_remove_pos is overwritten when it
\* lies in the buffer, and the write is out of bounds when it does not.
MapRemoveMissing(k) ==
    /\ mops < MaxMapOps
    /\ mlast.outcome = "ok"
    /\ live[k] = NoVal
    /\ \/ /\ m.sz = 0
          /\ m' = m
          /\ mlast' = [op |-> "remove_missing", key |-> k, outcome |-> "undefined"]
       \/ /\ m.sz > 0
          /\ \E idx \in smap_remove_pos(m, k) :
                IF idx < m.dense_maxsz
                THEN /\ m' = smap_remove_at(m, idx)
                     /\ mlast' = [op |-> "remove_missing", key |-> k, outcome |-> "silent"]
                ELSE /\ m' = m
                     /\ mlast' = [op |-> "remove_missing", key |-> k, outcome |-> "undefined"]
    /\ live' = live
    /\ mops' = mops + 1
    /\ mprev' = m
    /\ mpeak' = Max(mpeak, m'.sz)
    /\ UNCHANGED <<g, gops, glast, gprev, gpeak, cfg, cops, clast, cprev, rview, mo, asm, trav>>

MapMisuseNext ==
    \/ MapNext
    \/ \E k \in Keys : MapRemoveMissing(k)

(* ----------------------- the graph under test ------------------------- *)


\* the edges of a graph: the pairs (s, d) with d a key of _succs[s]
Edges(gr) ==
    {e \in (0..(graph_size(gr) - 1)) \X (0..(graph_size(gr) - 1)) :
        \E i \in 1..gr._succs[e[1] + 1].sz : gr._succs[e[1] + 1].dense[i].key = e[2]}

\* the weight slot of edge (s, d) as _succs[s] records it
SlotOf(gr, s, d) ==
    LET ms == gr._succs[s + 1]
    IN  ms.dense[CHOOSE i \in 1..ms.sz : ms.dense[i].key = d].val

GraphInit ==
    /\ g = EmptyGraph
    /\ gops = 0
    /\ glast = Call("init", 0, 0, 0)
    /\ gprev = EmptyGraph
    /\ gpeak = 0
    /\ m = EmptySMap
    /\ live = [k \in Keys |-> NoVal]
    /\ mops = 0
    /\ mlast = [op |-> "init", key |-> 0, outcome |-> "ok"]
    /\ mprev = EmptySMap
    /\ mpeak = 0
    /\ cfg = IdleCfg
    /\ cops = 0
    /\ clast = CfgCall("init", 0, 0, "ok")
    /\ cprev = IdleCfg
    /\ rview = NoRev
    /\ mo = EmptySMap
    /\ asm = IdleAsm
    /\ trav = IdleTrav

\* what every call does to the bookkeeping variables
Called(op, s, d, w) ==
    /\ gops' = gops + 1
    /\ glast' = Call(op, s, d, w)
    /\ gprev' = g
    /\ gpeak' = Max(gpeak, Cardinality(Edges(g')))
    /\ UNCHANGED <<m, live, mops, mlast, mprev, mpeak, cfg, cops, clast, cprev, rview, mo, asm, trav>>

CanCall == gops < MaxGraphOps /\ glast.outcome = "ok"

NewVertex ==
    /\ CanCall
    /\ g' = new_vertex(g).g
    /\ Called("new_vertex", new_vertex(g).v, 0, 0)

Forget(v) ==
    /\ CanCall
    /\ g' = forget(g, v)
    /\ Called("forget", v, 0, 0)

AddEdge(s, w, d) ==
    /\ CanCall
    /\ <<s, d>> \notin Edges(g)
    /\ g' = add_edge(g, s, w, d)
    /\ Called("add_edge", s, d, w)

UpdateEdge(s, w, d) ==
    /\ CanCall
    /\ g' \in update_edge(g, s, w, d)
    /\ Called("update_edge", s, d, w)

SetEdge(s, w, d) ==
    /\ CanCall
    /\ g' \in set_edge(g, s, w, d)
    /\ Called("set_edge", s, d, w)

ClearEdges ==
    /\ CanCall
    /\ g' = clear_edges(g)
    /\ Called("clear_edges", 0, 0, 0)

Clear ==
    /\ CanCall
    /\ g' = graph_clear(g)
    /\ Called("clear", 0, 0, 0)

GraphNext ==
    \/ NewVertex
    \/ \E v \in 0..(graph_size(g) - 1) : Forget(v)
    \/ \E s, d \in verts(g), w \in Weights : AddEdge(s, w, d)
    \/ \E s, d \in verts(g), w \in Weights : UpdateEdge(s, w, d)
    \/ \E s, d \in verts(g), w \in Weights : SetEdge(s, w, d)
    \/ ClearEdges
    \/ Clear

Spec == GraphInit /\ [][GraphNext]_vars

\* add_edge(s, w, d) called although the edge s -> d exists.  The code has no
\* check: it takes a weight slot and appends to both maps once more, and
\* returns.
AddEdgeExisting(s, w, d) ==
    /\ CanCall
    /\ <<s, d>> \in Edges(g)
    /\ g' = add_edge(g, s, w, d)
    /\ gops' = gops + 1
    /\ glast' = [Call("add_edge_existing", s, d, w) EXCEPT !.outcome = "silent"]
    /\ gprev' = g
    /\ gpeak' = Max(gpeak, Cardinality(Edges(g')))
    /\ UNCHANGED <<m, live, mops, mlast, mprev, mpeak, cfg, cops, clast, cprev, rview, mo, asm, trav>>

GraphMisuseNext ==
    \/ GraphNext
    \/ \E s, d \in verts(g), w \in Weights : AddEdgeExisting(s, w, d)

SpecGraphMisuse == GraphInit /\ [][GraphMisuseNext]_vars

\* growTo(v)
GrowTo(v) ==
    /\ CanCall
    /\ g' = growTo(g, v)
    /\ Called("growTo", v, 0, 0)

\* the calls that create and release vertices, and add_edge; the weight of
\* an edge plays no part in them, every edge is added with weight MaxWt
VertsNext ==
    \/ NewVertex
    \/ \E v \in 0..MaxGrow : GrowTo(v)
    \/ \E v \in 0..(graph_size(g) - 1) : Forget(v)
    \/ \E s, d \in verts(g) : AddEdge(s, MaxWt, d)
    \/ Clear

SpecVerts == GraphInit /\ [][VertsNext]_vars

(* ---------------- the weight slots of the graph's edges --------------- *)

\* the graph after its construction and growTo(n)
SlotsInit ==
    /\ \E n \in 0..MaxSlotVerts :
          /\ g = growTo(EmptyGraph, n)
          /\ gprev = growTo(EmptyGraph, n)
    /\ gops = 0
    /\ glast = Call("init", 0, 0, 0)
    /\ gpeak = 0
    /\ m = EmptySMap
    /\ live = [k \in Keys |-> NoVal]
    /\ mops = 0
    /\ mlast = [op |-> "init", key |-> 0, outcome |-> "ok"]
    /\ mprev = EmptySMap
    /\ mpeak = 0
    /\ cfg = IdleCfg
    /\ cops = 0
    /\ clast = CfgCall("init", 0, 0, "ok")
    /\ cprev = IdleCfg
    /\ rview = NoRev
    /\ mo = EmptySMap
    /\ asm = IdleAsm
    /\ trav = IdleTrav

\* the calls that take, write and release weight slots, MaxSlotOps of them.
\* An edge is added with weight MaxWt and an edge that exists is rewritten
\* with weight 1; update_edge and set_edge of an edge that does not exist
\* are add_edge.
SlotsNext ==
    \/ gops < MaxSlotOps /\ NewVertex
    \/ \E v \in 0..(graph_size(g) - 1) : gops < MaxSlotOps /\ Forget(v)
    \/ \E s, d \in verts(g) : gops < MaxSlotOps /\ AddEdge(s, MaxWt, d)
    \/ \E e \in Edges(g) : gops < MaxSlotOps /\ UpdateEdge(e[1], 1, e[2])
    \/ \E e \in Edges(g) : gops < MaxSlotOps /\ SetEdge(e[1], 1, e[2])
    \/ gops < MaxSlotOps /\ ClearEdges

SpecSlots == SlotsInit /\ [][SlotsNext]_vars

SpecSMap == MapInit /\ [][MapNext]_vars

SpecSMapMisuse == MapInit /\ [][MapMisuseNext]_vars

(* ----------------------- the cfg_t under test ------------------------- *)

\* the cfg_t right after either constructor
CfgInit ==
    /\ \E entry \in CfgLabels, exit \in CfgLabels \cup {NoExit} :
          /\ cfg = cfg_ctor(entry, exit)
          /\ cprev = cfg_ctor(entry, exit)
          /\ rview = NoRev
          /\ mo = EmptySMap
          /\ asm = IdleAsm
          /\ trav = IdleTrav
    /\ cops = 0
    /\ clast = CfgCall("init", 0, 0, "ok")
    /\ m = EmptySMap
    /\ live = [k \in Keys |-> NoVal]
    /\ mops = 0
    /\ mlast = [op |-> "init", key |-> 0, outcome |-> "ok"]
    /\ mprev = EmptySMap
    /\ mpeak = 0
    /\ g = EmptyGraph
    /\ gops = 0
    /\ glast = Call("init", 0, 0, 0)
    /\ gprev = EmptyGraph
    /\ gpeak = 0

\* what every call does to the bookkeeping variables
CfgCalled(op, a, b, outcome) ==
    /\ cops' = cops + 1
    /\ clast' = CfgCall(op, a, b, outcome)
    /\ cprev' = cfg
    /\ UNCHANGED <<m, live, mops, mlast, mprev, mpeak, g, gops, glast, gprev, gpeak, rview, mo, asm, trav>>

\* a call can be made: the last one did not end in CRAB_ERROR
CfgCanCall == cops < MaxCfgOps /\ clast.outcome = "ok"

Insert(l) ==
    /\ CfgCanCall
    /\ cfg' = insert(cfg, l)
    /\ CfgCalled("insert", l, l, "ok")

Remove(l) ==
    /\ CfgCanCall
    /\ cfg' = remove(cfg, l).c
    /\ CfgCalled("remove", l, l, remove(cfg, l).outcome)

\* a >> b
EdgeAdd(a, b) ==
    /\ CfgCanCall
    /\ cfg' = operator_rshift(cfg, a, b)
    /\ CfgCalled(">>", a, b, "ok")

\* a -= b
EdgeRemove(a, b) ==
    /\ CfgCanCall
    /\ cfg' = operator_minus(cfg, a, b)
    /\ CfgCalled("-=", a, b, "ok")

SetExit(l) ==
    /\ CfgCanCall
    /\ cfg' = set_exit(cfg, l)
    /\ CfgCalled("set_exit", l, l, "ok")

\* a statement is put at the back of block l; the statement is numbered l
InsertStatement(l) ==
    /\ CfgCanCall
    /\ Len(cfg.m_blocks[l].m_ts) < MaxStmts
    /\ cfg' = insert_statement(cfg, l, l)
    /\ CfgCalled("statement", l, l, "ok")

Simplify ==
    /\ CfgCanCall
    /\ \E r \in simplify(cfg) :
          /\ cfg' = r.c
          /\ CfgCalled("simplify", 0, 0, r.outcome)

CfgNext ==
    \/ \E l \in CfgLabels : Insert(l)
    \/ \E l \in CfgLabels : Remove(l)
    \/ \E a, b \in BlockLabels(cfg) : EdgeAdd(a, b)
    \/ \E a, b \in BlockLabels(cfg) : EdgeRemove(a, b)
    \/ \E l \in CfgLabels : SetExit(l)
    \/ \E l \in BlockLabels(cfg) : InsertStatement(l)
    \/ Simplify

SpecCfg == CfgInit /\ [][CfgNext]_vars

\* the edges of es in ascending (up) or descending order of (source, target)
RECURSIVE EdgeSeq(_, _)
EdgeSeq(es, up) ==
    IF es = {} THEN <<>>
    ELSE LET first == CHOOSE e \in es : \A f \in es :
                          IF up THEN e[1] < f[1] \/ (e[1] = f[1] /\ e[2] <= f[2])
                                ELSE e[1] > f[1] \/ (e[1] = f[1] /\ e[2] >= f[2])
         IN  <<first>> \o EdgeSeq(es \ {first}, up)

\* insert(l) and one statement for every l of ls
RECURSIVE InsertAll(_, _)
InsertAll(c, ls) ==
    IF ls = {} THEN c
    ELSE LET l == CHOOSE x \in ls : TRUE
         IN  InsertAll(insert_statement(insert(c, l), l, l), ls \ {l})

\* a >> b for every edge of the sequence q, in its order
RECURSIVE EdgeAddAll(_, _)
EdgeAddAll(c, q) ==
    IF q = <<>> THEN c
    ELSE EdgeAddAll(operator_rshift(c, Head(q)[1], Head(q)[2]), Tail(q))

\* the cfg_t that cfg_t(0, exit), an insert and a statement per label of ls,
\* and a >> b per edge of es build
Built(ls, es, up, exit) == EdgeAddAll(InsertAll(cfg_ctor(0, exit), ls), EdgeSeq(es, up))

\* the sets of at most n edges between the labels of ls
RECURSIVE EdgeSets(_, _)
EdgeSets(ls, n) ==
    IF n = 0 THEN {{}}
    ELSE LET fewer == EdgeSets(ls, n - 1)
         IN  fewer \cup {es \cup {e} : es \in fewer, e \in ls \X ls}

\* a cfg_t built by insert and >> calls, about to be simplified
BuiltInit ==
    /\ \E ls \in SUBSET BuiltLabels, exit \in BuiltLabels \cup {NoExit}, up \in BOOLEAN :
          /\ 0 \in ls
          /\ \E es \in EdgeSets(ls, MaxEdges) :
                /\ cfg = Built(ls, es, up, exit)
                /\ cprev = Built(ls, es, up, exit)
                /\ rview = NoRev
                /\ mo = EmptySMap
                /\ asm = IdleAsm
                /\ trav = IdleTrav
    /\ cops = 0
    /\ clast = CfgCall("init", 0, 0, "ok")
    /\ m = EmptySMap
    /\ live = [k \in Keys |-> NoVal]
    /\ mops = 0
    /\ mlast = [op |-> "init", key |-> 0, outcome |-> "ok"]
    /\ mprev = EmptySMap
    /\ mpeak = 0
    /\ g = EmptyGraph
    /\ gops = 0
    /\ glast = Call("init", 0, 0, 0)
    /\ gprev = EmptyGraph
    /\ gpeak = 0

SpecSimplify == BuiltInit /\ [][Simplify]_vars

(* ---------------------- two maps and a copy --------------------------- *)

\* the maps the two sides of a copy start from: empty, one large key, eight
\* keys without a sparse table, and nine keys with a sparse table of
\* sparse_threshold + 1 cells or of twice sparse_threshold cells
OneLargeKey == <<MaxKey>>
SmallSparse == [i \in 1..(sparse_threshold + 1) |-> i % (sparse_threshold + 1)]
WideSparse == [i \in 1..(sparse_threshold + 1) |-> i - 1]
CopyFills == {<<>>, OneLargeKey, Descending, SmallSparse, WideSparse}

\* the keys the calls after a copy are made with
CopyKeys == {0, sparse_threshold, MaxKey}

\* the value each key has in a map, as its elements dense[0..sz) say
PairsOf(mp) ==
    [k \in Keys |->
        IF \E i \in 1..mp.sz : mp.dense[i].key = k
        THEN mp.dense[CHOOSE i \in 1..mp.sz : mp.dense[i].key = k].val
        ELSE NoVal]

CopyInit ==
    /\ \E ka \in CopyFills, kb \in CopyFills :
        /\ m = AddAll(EmptySMap, ka)
        /\ mo = AddAll(EmptySMap, kb)
        /\ asm = IdleAsm
        /\ trav = IdleTrav
        /\ live = [k \in Keys |-> IF k \in Range(ka) THEN ValOf(k) ELSE NoVal]
    /\ mops = 0
    /\ mlast = [op |-> "init", key |-> 0, outcome |-> "ok"]
    /\ mprev = EmptySMap
    /\ mpeak = m.sz
    /\ g = EmptyGraph
    /\ gops = 0
    /\ glast = Call("init", 0, 0, 0)
    /\ gprev = EmptyGraph
    /\ gpeak = 0
    /\ cfg = IdleCfg
    /\ cops = 0
    /\ clast = CfgCall("init", 0, 0, "ok")
    /\ cprev = IdleCfg
    /\ rview = NoRev

\* m = mo;  a write outside m's sparse table makes the outcome undefined
CopyAssign ==
    /\ mops < MaxMapOps
    /\ mlast.outcome = "ok"
    /\ m' = smap_assign(m, mo)
    /\ live' = PairsOf(mo)
    /\ mops' = mops + 1
    /\ mlast' = [op |-> "assign", key |-> 0,
                 outcome |-> IF smap_assign_in_bounds(m, mo) THEN "ok" ELSE "undefined"]
    /\ mprev' = m
    /\ mpeak' = Max(mpeak, m'.sz)
    /\ UNCHANGED <<g, gops, glast, gprev, gpeak, cfg, cops, clast, cprev, rview, mo, asm, trav>>

\* AdaptSMap m(mo);
CopyConstruct ==
    /\ mops < MaxMapOps
    /\ mlast.outcome = "ok"
    /\ m' = smap_copy(mo)
    /\ live' = PairsOf(mo)
    /\ mops' = mops + 1
    /\ mlast' = [op |-> "copy", key |-> 0, outcome |-> "ok"]
    /\ mprev' = m
    /\ mpeak' = m'.sz
    /\ UNCHANGED <<g, gops, glast, gprev, gpeak, cfg, cops, clast, cprev, rview, mo, asm, trav>>

\* mo.add(k, v) on the other map
OtherAdd(k, v) ==
    /\ mops < MaxMapOps
    /\ mlast.outcome = "ok"
    /\ PairsOf(mo)[k] = NoVal
    /\ mo' = smap_add(mo, k, v)
    /\ mops' = mops + 1
    /\ mlast' = [op |-> "other_add", key |-> k, outcome |-> "ok"]
    /\ mprev' = m
    /\ UNCHANGED <<m, live, mpeak, g, gops, glast, gprev, gpeak, cfg, cops, clast, cprev, rview, asm, trav>>

CopyNext ==
    \/ CopyAssign
    \/ CopyConstruct
    \/ \E k \in CopyKeys, v \in Vals : MapAdd(k, v)
    \/ \E k \in CopyKeys : MapRemove(k)
    \/ MapClear
    \/ \E k \in CopyKeys, v \in Vals : OtherAdd(k, v)

SpecCopy == CopyInit /\ [][CopyNext]_vars

(* ---------------------- cfg_rev_t under test -------------------------- *)

\* a cfg_t built by insert and >> calls, before a reversed view is built
RevInit ==
    /\ \E ls \in SUBSET BuiltLabels, exit \in BuiltLabels \cup {NoExit}, up \in BOOLEAN :
          /\ 0 \in ls
          /\ \E es \in EdgeSets(ls, MaxRevEdges) :
                /\ cfg = Built(ls, es, up, exit)
                /\ cprev = Built(ls, es, up, exit)
                /\ rview = NoRev
                /\ mo = EmptySMap
                /\ asm = IdleAsm
                /\ trav = IdleTrav
    /\ cops = 0
    /\ clast = CfgCall("init", 0, 0, "ok")
    /\ m = EmptySMap
    /\ live = [k \in Keys |-> NoVal]
    /\ mops = 0
    /\ mlast = [op |-> "init", key |-> 0, outcome |-> "ok"]
    /\ mprev = EmptySMap
    /\ mpeak = 0
    /\ g = EmptyGraph
    /\ gops = 0
    /\ glast = Call("init", 0, 0, 0)
    /\ gprev = EmptyGraph
    /\ gpeak = 0

\* a call on the view: it has the cfg_t by reference and does not write it
RevCalled(op, a, outcome) ==
    /\ cops' = cops + 1
    /\ clast' = CfgCall(op, a, 0, outcome)
    /\ cprev' = cfg
    /\ cfg' = cfg
    /\ UNCHANGED <<m, live, mops, mlast, mprev, mpeak, g, gops, glast, gprev, gpeak, mo, asm, trav>>

\* cfg_rev_t rev(cfg)
RevConstruct ==
    /\ CfgCanCall
    /\ ~rview.made
    /\ rview' = cfg_rev_ctor(cfg)
    /\ RevCalled("cfg_rev_t", 0, "ok")

\* rev.entry(); a holds the label returned
RevEntry ==
    /\ CfgCanCall
    /\ rview.made
    /\ rview' = rview
    /\ RevCalled("rev.entry", rev_entry(cfg).val, rev_entry(cfg).outcome)

RevNext == Simplify \/ RevConstruct \/ RevEntry

SpecRev == RevInit /\ [][RevNext]_vars

\* rev.get_node(l)
RevGetNode(l) ==
    /\ CfgCanCall
    /\ rview.made
    /\ rview' = rview
    /\ \E r \in rev_get_node(cfg, rview, l) : RevCalled("rev.get_node", l, r.outcome)

\* cfg.remove(l) while a view may exist: the block is destroyed, the view
\* is not told
RemoveUnderView(l) ==
    /\ CfgCanCall
    /\ cfg' = remove(cfg, l).c
    /\ rview' = IF remove(cfg, l).outcome = "ok"
                THEN [rview EXCEPT !.freed = @ \cup ({l} \cap rview._rev_bbs)]
                ELSE rview
    /\ cops' = cops + 1
    /\ clast' = CfgCall("remove", l, l, remove(cfg, l).outcome)
    /\ cprev' = cfg
    /\ UNCHANGED <<m, live, mops, mlast, mprev, mpeak, g, gops, glast, gprev, gpeak, mo, asm, trav>>

\* the cfg_t is edited while a view of it exists
RevLaterNext ==
    \/ RevConstruct
    \/ \E l \in BuiltLabels : Insert(l)
    \/ \E l \in BuiltLabels : RemoveUnderView(l)
    \/ \E l \in BuiltLabels : RevGetNode(l)

SpecRevLater == RevInit /\ [][RevLaterNext]_vars

(* ------------------ decoder and ASM Cfg under test -------------------- *)

\* the immediates of the raw words: the two halves of 0x0000001212345678,
\* and a negative one
Imms == {18, 305419896, -1}

Offsets == (-MaxOff)..MaxOff

\* the raw words programs are made of: mov64, exit, ja and jeq with every
\* offset, the first word of an lddw, and a word with opcode 0, which is the
\* second word of an lddw where it follows a first word
RawWords ==
    {ebpf_inst(EBPF_OP_MOV64_IMM, 0, 0, 0, 0), ebpf_inst(EBPF_OP_EXIT, 0, 0, 0, 0)}
    \cup {ebpf_inst(EBPF_OP_JA, 0, 0, off, 0) : off \in Offsets}
    \cup {ebpf_inst(EBPF_OP_JEQ_IMM, 0, 0, off, 0) : off \in Offsets}
    \cup {ebpf_inst(EBPF_OP_LDDW, 1, 0, 0, imm) : imm \in Imms}
    \cup {ebpf_inst(0, 0, 0, 0, imm) : imm \in Imms}

RawPrograms == UNION {[1..n -> RawWords] : n \in 1..MaxProg}

AsmInit ==
    /\ \E prog \in RawPrograms :
          asm = [dec |-> unmarshal_start(prog), built |-> "none", cfg |-> NoCfg, nondet |-> NoCfg]
    /\ m = EmptySMap
    /\ live = [k \in Keys |-> NoVal]
    /\ mops = 0
    /\ mlast = [op |-> "init", key |-> 0, outcome |-> "ok"]
    /\ mprev = EmptySMap
    /\ mpeak = 0
    /\ g = EmptyGraph
    /\ gops = 0
    /\ glast = Call("init", 0, 0, 0)
    /\ gprev = EmptyGraph
    /\ gpeak = 0
    /\ cfg = IdleCfg
    /\ cops = 0
    /\ clast = CfgCall("init", 0, 0, "ok")
    /\ cprev = IdleCfg
    /\ rview = NoRev
    /\ mo = EmptySMap
    /\ trav = IdleTrav

\* the decoder takes the next instruction of the program
Unmarshal ==
    /\ asm.dec.stage = "decode"
    /\ asm' = [asm EXCEPT !.dec = unmarshal_step(asm.dec)]
    /\ UNCHANGED <<m, live, mops, mlast, mprev, mpeak, g, gops, glast, gprev, gpeak,
                   cfg, cops, clast, cprev, rview, mo, trav>>

\* Cfg::make on the decoder's instruction sequence
MakeCfg ==
    /\ asm.dec.stage = "decoded"
    /\ asm.built = "none"
    /\ asm' = [asm EXCEPT !.built = "cfg", !.cfg = Cfg_make(asm.dec.insts)]
    /\ UNCHANGED <<m, live, mops, mlast, mprev, mpeak, g, gops, glast, gprev, gpeak,
                   cfg, cops, clast, cprev, rview, mo, trav>>

\* cfg.to_nondet(expand_locks)
ToNondet(expand_locks) ==
    /\ asm.built = "cfg"
    /\ asm' = [asm EXCEPT !.built = "nondet", !.nondet = to_nondet(asm.cfg, expand_locks)]
    /\ UNCHANGED <<m, live, mops, mlast, mprev, mpeak, g, gops, glast, gprev, gpeak,
                   cfg, cops, clast, cprev, rview, mo, trav>>

AsmNext ==
    \/ Unmarshal
    \/ MakeCfg
    \/ \E expand_locks \in BOOLEAN : ToNondet(expand_locks)

SpecAsm == AsmInit /\ [][AsmNext]_vars

(* -------------------- the merge pass on its own ----------------------- *)

\* insert(l) and two statements, l and l + MaxBuiltLabel + 1, for every l of ls
RECURSIVE InsertAllTwo(_, _)
InsertAllTwo(c, ls) ==
    IF ls = {} THEN c
    ELSE LET l == CHOOSE x \in ls : TRUE
         IN  InsertAllTwo(insert_statement(insert_statement(insert(c, l), l, l),
                                           l, l + MaxBuiltLabel + 1),
                          ls \ {l})

\* a cfg_t built by insert and >> calls, every block with two statements
MergeInit ==
    /\ \E ls \in SUBSET BuiltLabels, exit \in BuiltLabels \cup {NoExit}, up \in BOOLEAN :
          /\ 0 \in ls
          /\ \E es \in EdgeSets(ls, MaxMergeEdges) :
                /\ cfg = EdgeAddAll(InsertAllTwo(cfg_ctor(0, exit), ls), EdgeSeq(es, up))
                /\ cprev = EdgeAddAll(InsertAllTwo(cfg_ctor(0, exit), ls), EdgeSeq(es, up))
                /\ rview = NoRev
                /\ mo = EmptySMap
                /\ asm = IdleAsm
                /\ trav = IdleTrav
    /\ cops = 0
    /\ clast = CfgCall("init", 0, 0, "ok")
    /\ m = EmptySMap
    /\ live = [k \in Keys |-> NoVal]
    /\ mops = 0
    /\ mlast = [op |-> "init", key |-> 0, outcome |-> "ok"]
    /\ mprev = EmptySMap
    /\ mpeak = 0
    /\ g = EmptyGraph
    /\ gops = 0
    /\ glast = Call("init", 0, 0, 0)
    /\ gprev = EmptyGraph
    /\ gpeak = 0

\* merge_blocks(), the step simplify() starts with
MergeBlocks ==
    /\ CfgCanCall
    /\ cfg' = merge_blocks(cfg).c
    /\ CfgCalled("merge_blocks", 0, 0, merge_blocks(cfg).outcome)

SpecMerge == MergeInit /\ [][MergeBlocks]_vars

(* -------------------- simplify() call by call ------------------------- *)

\* the walk a pass starts with: one frame that calls the function on the
\* pass's start label, nothing visited
BeginPass(phase, c) ==
    [phase |-> phase, stack |-> <<Frame(<<StartOf(c, phase)>>)>>, visited |-> {},
     entered |-> [l \in TravLabels |-> 0]]

\* the pass that follows phase in simplify(): remove_useless_blocks() returns
\* at once without an exit, and after the last merge_blocks() the call returns
AfterPass(phase, c) ==
    LET next == NextPass(phase)
    IN  IF next = "useless" /\ ~has_exit(c) THEN BeginPass("merge2", c)
        ELSE IF next = "done" THEN [BeginPass("done", c) EXCEPT !.stack = <<>>]
        ELSE BeginPass(next, c)

\* the call ended in CRAB_ERROR
Aborted(t) == [t EXCEPT !.phase = "fatal"]

\* the walk in progress
Walk == [c |-> cfg, stack |-> trav.stack, visited |-> trav.visited,
         entered |-> trav.entered, outcome |-> "ok"]

\* what a step of a walk leaves in trav
Walked(r) ==
    LET t == [trav EXCEPT !.stack = r.stack, !.visited = r.visited, !.entered = r.entered]
    IN  IF r.outcome = "ok" THEN t ELSE Aborted(t)

\* the recursion is followed to this depth
TravDepthCap == 3 * (MaxTravLabel + 2)

\* a cfg_t built by insert and >> calls; simplify() has been called on it and
\* is about to call merge_blocks()
TravInit ==
    /\ \E ls \in SUBSET TravLabels, exit \in TravLabels \cup {NoExit}, up \in BOOLEAN :
          /\ 0 \in ls
          /\ \E es \in EdgeSets(ls, MaxTravEdges) :
                /\ cfg = Built(ls, es, up, exit)
                /\ cprev = Built(ls, es, up, exit)
                /\ trav = BeginPass("merge1", Built(ls, es, up, exit))
    /\ rview = NoRev
    /\ mo = EmptySMap
    /\ asm = IdleAsm
    /\ cops = 0
    /\ clast = CfgCall("init", 0, 0, "ok")
    /\ m = EmptySMap
    /\ live = [k \in Keys |-> NoVal]
    /\ mops = 0
    /\ mlast = [op |-> "init", key |-> 0, outcome |-> "ok"]
    /\ mprev = EmptySMap
    /\ mpeak = 0
    /\ g = EmptyGraph
    /\ gops = 0
    /\ glast = Call("init", 0, 0, 0)
    /\ gprev = EmptyGraph
    /\ gpeak = 0

\* merge_blocks_rec is called on the next label, or returns
MergeCall ==
    /\ trav.phase \in {"merge1", "merge2", "merge3"}
    /\ trav.stack # <<>>
    /\ Len(trav.stack) < TravDepthCap
    /\ cfg' = merge_blocks_step(Walk).c
    /\ trav' = Walked(merge_blocks_step(Walk))
    /\ UNCHANGED <<m, live, mops, mlast, mprev, mpeak, g, gops, glast, gprev, gpeak,
                   cops, clast, cprev, rview, mo, asm>>

\* merge_blocks() has returned: simplify() goes on to its next pass
MergeReturn ==
    /\ trav.phase \in {"merge1", "merge2", "merge3"}
    /\ trav.stack = <<>>
    /\ trav' = AfterPass(trav.phase, cfg)
    /\ UNCHANGED <<m, live, mops, mlast, mprev, mpeak, g, gops, glast, gprev, gpeak,
                   cfg, cops, clast, cprev, rview, mo, asm>>

\* mark_alive_blocks is called on the next label, or returns
MarkCall ==
    /\ trav.phase \in {"unreachable", "useless"}
    /\ trav.stack # <<>>
    /\ Len(trav.stack) < TravDepthCap
    /\ trav' = Walked(mark_alive_step(Walk, trav.phase = "useless"))
    /\ UNCHANGED <<m, live, mops, mlast, mprev, mpeak, g, gops, glast, gprev, gpeak,
                   cfg, cops, clast, cprev, rview, mo, asm>>

\* the marking is over: the blocks that were not marked are removed, and
\* simplify() goes on to its next pass
SweepDead ==
    /\ trav.phase \in {"unreachable", "useless"}
    /\ trav.stack = <<>>
    /\ \E r \in sweep(cfg, BlockLabels(cfg) \ trav.visited) :
          /\ cfg' = r.c
          /\ trav' = IF r.outcome = "ok" THEN AfterPass(trav.phase, r.c) ELSE Aborted(trav)
    /\ UNCHANGED <<m, live, mops, mlast, mprev, mpeak, g, gops, glast, gprev, gpeak,
                   cops, clast, cprev, rview, mo, asm>>

TravNext ==
    \/ MergeCall
    \/ MergeReturn
    \/ MarkCall
    \/ SweepDead

SpecSimplifyRun == TravInit /\ [][TravNext]_vars

(* ----------------- the last merge pass of simplify() ------------------ *)

\* a cfg_t built by insert and >> calls; simplify() has been called on it
LastInit ==
    /\ \E ls \in SUBSET BuiltLabels, exit \in BuiltLabels \cup {NoExit}, up \in BOOLEAN :
          /\ 0 \in ls
          /\ \E es \in EdgeSets(ls, MaxLastEdges) :
                /\ cfg = Built(ls, es, up, exit)
                /\ cprev = Built(ls, es, up, exit)
    /\ rview = NoRev
    /\ mo = EmptySMap
    /\ asm = IdleAsm
    /\ trav = IdleTrav
    /\ cops = 0
    /\ clast = CfgCall("init", 0, 0, "ok")
    /\ m = EmptySMap
    /\ live = [k \in Keys |-> NoVal]
    /\ mops = 0
    /\ mlast = [op |-> "init", key |-> 0, outcome |-> "ok"]
    /\ mprev = EmptySMap
    /\ mpeak = 0
    /\ g = EmptyGraph
    /\ gops = 0
    /\ glast = Call("init", 0, 0, 0)
    /\ gprev = EmptyGraph
    /\ gpeak = 0

\* simplify() runs up to its last statement
SimplifyUptoLast ==
    /\ clast.op = "init"
    /\ \E r \in simplify_upto_last(cfg) :
          /\ cfg' = r.c
          /\ CfgCalled("simplify: merge, remove, merge", 0, 0, r.outcome)

\* the last statement of simplify(): the third merge_blocks()
ThirdMerge ==
    /\ clast.op = "simplify: merge, remove, merge"
    /\ clast.outcome = "ok"
    /\ cfg' = merge_blocks(cfg).c
    /\ CfgCalled("simplify: third merge", 0, 0, merge_blocks(cfg).outcome)

LastNext == SimplifyUptoLast \/ ThirdMerge

SpecLastMerge == LastInit /\ [][LastNext]_vars

(* ------------------------ claims on AdaptSMap ------------------------- *)

\* keys that elem and lookup are called with: the keys of the map under test
\* and keys beyond them, which were never added
ProbeKeys == 0..(2 * MaxKey)

LiveVal(k) == IF k \in Keys THEN live[k] ELSE NoVal

\* C1: after any sequence of add / remove / clear calls that respects the
\* preconditions, lookup(k) returns true with value v exactly when k was added
\* with v and not removed or cleared since, elem(k) says the same, and size()
\* is the number of live keys; whatever an unwritten sparse cell holds.
C1_LookupMatchesHistory ==
    /\ \A k \in ProbeKeys :
          /\ smap_lookup(m, k) =
                {IF LiveVal(k) # NoVal THEN [found |-> TRUE, val |-> LiveVal(k)]
                                       ELSE [found |-> FALSE, val |-> NoVal]}
          /\ smap_elem(m, k) = {LiveVal(k) # NoVal}
    /\ smap_size(m) = Cardinality({k \in Keys : live[k] # NoVal})

\* a remove of an element that is not the last one, in a map whose ninth add
\* built the sparse table
C1_Witness ==
    /\ mlast.op = "remove"
    /\ mprev.has_sparse
    /\ mprev.sz = sparse_threshold + 1
    /\ mprev.dense[mprev.sz].key # mlast.key
    /\ mops >= 2

\* C8: remove(k) of a key that is not in the map ends in an error state and
\* leaves size, dense and sparse as they were.
C8_RemoveMissingIsFatal ==
    mlast.op = "remove_missing" => (mlast.outcome = "abort" /\ m = mprev)

\* C9: with a sparse table, sparse[dense[i].key] = i for every i < size, and
\* the keys of dense[0..size) are pairwise distinct.
C9_SparseIndexesDense ==
    m.has_sparse =>
        /\ \A i \in 1..m.sz :
              /\ m.dense[i].key < m.sparse_ub
              /\ m.sparse[m.dense[i].key + 1] = i - 1
        /\ \A i, j \in 1..m.sz : m.dense[i].key = m.dense[j].key => i = j

\* an add that grew a sparse table which already existed
C9_Witness ==
    /\ mlast.op = "add"
    /\ mprev.has_sparse
    /\ m.sparse_ub > mprev.sparse_ub
    /\ m.sz > 1

\* C10: every read of sparse[k] that elem or lookup makes is a read of a cell
\* inside the table that has been written.
C10_SparseReadsDefined ==
    m.has_sparse => \A k \in ProbeKeys : SparseReadDefined(m, k)

\* C11: the map has no sparse table as long as its size has never exceeded
\* sparse_threshold; the add that makes the size sparse_threshold + 1 builds
\* the table; and a map that has the table keeps it in every later state,
\* also when remove or clear bring the size back to sparse_threshold or less.
C11_SparseOnceGrown ==
    /\ m.has_sparse <=> mpeak > sparse_threshold
    /\ mprev.has_sparse => m.has_sparse
    /\ (mlast.op = "add" /\ mprev.sz = sparse_threshold /\ ~mprev.has_sparse) =>
            (m.has_sparse /\ m.sparse_ub = Len(m.sparse))

\* a remove or a clear that brought a map with a sparse table back to
\* sparse_threshold elements or fewer
C11_Witness ==
    /\ mlast.op \in {"remove", "clear"}
    /\ mprev.has_sparse
    /\ mprev.sz > sparse_threshold
    /\ m.sz <= sparse_threshold


(* ------------------------ claims on AdaptGraph ------------------------ *)

VertIds(gr) == 0..(graph_size(gr) - 1)

\* the number of times x occurs in the sequence q
Count(q, x) == Cardinality({i \in 1..Len(q) : q[i] = x})

\* succ[s] contains d iff pred[d] contains s, and then both hold the same index
SuccPredSymmetric(gr) ==
    \A s, d \in VertIds(gr) :
        /\ smap_elem(gr._succs[s + 1], d) = smap_elem(gr._preds[d + 1], s)
        /\ smap_lookup(gr._succs[s + 1], d) = smap_lookup(gr._preds[d + 1], s)

\* C2: in every reachable state, for all vertices s, d: succ[s] contains d
\* iff pred[d] contains s, both entries hold the same weight index i, and
\* weights[i] is the weight edge_val(s, d) reports.
C2_SuccPredWeightCoincide ==
    /\ SuccPredSymmetric(g)
    /\ \A e \in Edges(g) :
          LET i == SlotOf(g, e[1], e[2])
          IN  /\ i < Len(g._ws)
              /\ edge_val(g, e[1], e[2]) = {g._ws[i + 1]}

\* C3: after update_edge(s, w, d), edge_val(s, d) is min(prior, w), prior being
\* the weight before the call or +infinity when there was no edge; an edge
\* that existed keeps its slot and the edge count, a new one adds one to the count.
C3_UpdateEdgeIsMin ==
    glast.op = "update_edge" =>
        LET s == glast.s
            d == glast.d
            existed == <<s, d>> \in Edges(gprev)
        IN  /\ <<s, d>> \in Edges(g)
            /\ existed =>
                  /\ \E prior \in edge_val(gprev, s, d) :
                        edge_val(g, s, d) = {Min(prior, glast.w)}
                  /\ SlotOf(g, s, d) = SlotOf(gprev, s, d)
                  /\ num_edges(g) = num_edges(gprev)
            /\ ~existed =>
                  /\ edge_val(g, s, d) = {glast.w}
                  /\ num_edges(g) = num_edges(gprev) + 1

\* C4: after forget(v) on a live vertex v, no edge has v as source or target,
\* is_free[v] holds and v is on the free list so that new_vertex returns it,
\* and every edge not incident to v is still there with its slot and weight.
C4_ForgetDetachesVertex ==
    (glast.op = "forget" /\ ~gprev.is_free[glast.s + 1]) =>
        LET v == glast.s
        IN  /\ smap_size(g._succs[v + 1]) = 0
            /\ smap_size(g._preds[v + 1]) = 0
            /\ \A u \in VertIds(g) :
                  /\ smap_elem(g._succs[u + 1], v) = {FALSE}
                  /\ smap_elem(g._preds[u + 1], v) = {FALSE}
            /\ g.is_free[v + 1]
            /\ Count(g.free_id, v) = 1
            /\ new_vertex(g).v = v
            /\ Edges(g) = {e \in Edges(gprev) : e[1] # v /\ e[2] # v}
            /\ \A e \in Edges(g) :
                  /\ SlotOf(g, e[1], e[2]) = SlotOf(gprev, e[1], e[2])
                  /\ edge_val(g, e[1], e[2]) = edge_val(gprev, e[1], e[2])
                  /\ smap_lookup(g._preds[e[2] + 1], e[1]) =
                        smap_lookup(gprev._preds[e[2] + 1], e[1])

\* forget of a vertex that had an outgoing and an incoming edge, while
\* another edge stays
C4_Witness ==
    /\ glast.op = "forget"
    /\ ~gprev.is_free[glast.s + 1]
    /\ \E e \in Edges(gprev) : e[1] = glast.s /\ e[2] # glast.s
    /\ \E e \in Edges(gprev) : e[2] = glast.s /\ e[1] # glast.s
    /\ Edges(g) # {}

\* the weight slots of the edges of gr that have v as source or target
IncidentSlots(gr, v) ==
    {SlotOf(gr, e[1], e[2]) : e \in {x \in Edges(gr) : x[1] = v \/ x[2] = v}}

\* C5: forget(v) pushes the weight index of every edge incident to v,
\* incoming as well as outgoing, onto free_widx exactly once.
C5_ForgetFreesIncidentSlots ==
    (glast.op = "forget" /\ ~gprev.is_free[glast.s + 1]) =>
        \A i \in 0..Len(gprev._ws) :
            Count(g.free_widx, i) =
                Count(gprev.free_widx, i)
                    + (IF i \in IncidentSlots(gprev, glast.s) THEN 1 ELSE 0)

\* C6: the weight vector is never longer than the largest number of edges
\* the graph has held at once.
C6_WeightVectorBounded == Len(g._ws) <= gpeak

\* C7: add_edge on an existing edge ends in an error state; succ[s] never
\* holds two entries for d and the edge count never counts an edge twice.
C7_AddExistingEdgeIsFatal ==
    /\ glast.op = "add_edge_existing" => glast.outcome = "abort"
    /\ \A s \in VertIds(g) :
          \A i, j \in 1..g._succs[s + 1].sz :
              g._succs[s + 1].dense[i].key = g._succs[s + 1].dense[j].key => i = j
    /\ num_edges(g) = Cardinality(Edges(g))

(* -------------------------- claims on cfg_t --------------------------- *)

NextOf(c, l) == c.m_blocks[l].m_next
PrevOf(c, l) == c.m_blocks[l].m_prev

\* the edges of a cfg_t as its m_next lists record them
CfgEdges(c) ==
    UNION {{<<a, NextOf(c, a)[i]>> : i \in 1..Len(NextOf(c, a))} : a \in BlockLabels(c)}

\* C12: in every state reachable by insert, a >> b, a -= b, remove and
\* simplify: b is in next(a) iff a is in prev(b); every label in a next or
\* prev list is a key of the block map; no next or prev list holds a label twice.
C12_EdgesSymmetricClosed ==
    \A a \in BlockLabels(cfg) :
        /\ \A b \in BlockLabels(cfg) : Contains(NextOf(cfg, a), b) <=> Contains(PrevOf(cfg, b), a)
        /\ \A i \in 1..Len(NextOf(cfg, a)) :
              /\ NextOf(cfg, a)[i] \in BlockLabels(cfg)
              /\ Count(NextOf(cfg, a), NextOf(cfg, a)[i]) = 1
        /\ \A i \in 1..Len(PrevOf(cfg, a)) :
              /\ PrevOf(cfg, a)[i] \in BlockLabels(cfg)
              /\ Count(PrevOf(cfg, a), PrevOf(cfg, a)[i]) = 1

\* a simplify that merged a block with a predecessor and a successor away
\* and left an edge
C12_Witness ==
    /\ clast.op = "simplify"
    /\ clast.outcome = "ok"
    /\ \E l \in BlockLabels(cprev) \ BlockLabels(cfg) :
          Len(PrevOf(cprev, l)) > 0 /\ Len(NextOf(cprev, l)) > 0
    /\ CfgEdges(cfg) # {}

\* C13: in every reachable state, from either constructor and after
\* set_exit, insert, remove and the edge operations, the entry label is a key
\* of the block map and, if an exit is set, the exit label is a key too.
C13_EntryExitAreKeys ==
    /\ cfg.m_entry \in BlockLabels(cfg)
    /\ has_exit(cfg) => cfg.m_exit \in BlockLabels(cfg)

IsEntryOrExit(c, l) == l = c.m_entry \/ (has_exit(c) /\ l = c.m_exit)

\* C14: remove(label) with the entry label or the declared exit label ends
\* in a fatal error and leaves the block map, every block's statements and
\* every next/prev list as before the call.
C14_RemoveEntryExitIsFatal ==
    (clast.op = "remove" /\ IsEntryOrExit(cprev, clast.a)) =>
        (clast.outcome = "fatal" /\ cfg = cprev)

\* remove of a declared exit that is a block with an edge and is not the entry
C14_Witness ==
    /\ clast.op = "remove"
    /\ has_exit(cprev)
    /\ clast.a = cprev.m_exit
    /\ clast.a # cprev.m_entry
    /\ clast.a \in BlockLabels(cprev)
    /\ Len(PrevOf(cprev, clast.a)) > 0

\* C15: remove(label) of a block that is neither entry nor declared exit,
\* with or without a self-loop, returns; label is no key any more and is in
\* no remaining next or prev list; every other block keeps its statements
\* and its edges to the other blocks, in their order.
C15_RemoveDetachesBlock ==
    (clast.op = "remove" /\ clast.a \in BlockLabels(cprev) /\ ~IsEntryOrExit(cprev, clast.a)) =>
        /\ clast.outcome = "ok"
        /\ BlockLabels(cfg) = BlockLabels(cprev) \ {clast.a}
        /\ cfg.m_entry = cprev.m_entry
        /\ cfg.m_exit = cprev.m_exit
        /\ \A b \in BlockLabels(cfg) :
              /\ ~Contains(NextOf(cfg, b), clast.a)
              /\ ~Contains(PrevOf(cfg, b), clast.a)
              /\ NextOf(cfg, b) = SelectSeq(NextOf(cprev, b), LAMBDA x : x # clast.a)
              /\ PrevOf(cfg, b) = SelectSeq(PrevOf(cprev, b), LAMBDA x : x # clast.a)
              /\ cfg.m_blocks[b].m_ts = cprev.m_blocks[b].m_ts

\* remove of a block with a self-loop and an edge from another block, while
\* an edge between other blocks stays
C15_Witness ==
    /\ clast.op = "remove"
    /\ clast.outcome = "ok"
    /\ Contains(NextOf(cprev, clast.a), clast.a)
    /\ \E b \in BlockLabels(cfg) : Contains(NextOf(cprev, b), clast.a)
    /\ CfgEdges(cfg) # {}

\* C16: insert(label) on a label that is a key changes nothing; on a new
\* label it adds exactly one block, with no statements and no edges; a
\* second insert(label) changes nothing.
C16_InsertIdempotent ==
    clast.op = "insert" =>
        /\ clast.a \in BlockLabels(cprev) => cfg = cprev
        /\ clast.a \notin BlockLabels(cprev) =>
              /\ BlockLabels(cfg) = BlockLabels(cprev) \cup {clast.a}
              /\ cfg.m_blocks[clast.a] = EmptyBlock
              /\ \A b \in BlockLabels(cprev) : cfg.m_blocks[b] = cprev.m_blocks[b]
              /\ cfg.m_entry = cprev.m_entry
              /\ cfg.m_exit = cprev.m_exit
        /\ insert(cfg, clast.a) = cfg

\* insert of a label whose block has a statement and an edge
C16_Witness ==
    /\ clast.op = "insert"
    /\ clast.a \in BlockLabels(cprev)
    /\ Len(cprev.m_blocks[clast.a].m_ts) > 0
    /\ Len(NextOf(cprev, clast.a)) > 0

HasEdge(c, a, b) == Contains(NextOf(c, a), b) \/ Contains(PrevOf(c, b), a)

\* C17: a >> b applied twice leaves what one application leaves, b once in
\* next(a) and a once in prev(b); a -= b applied twice leaves what one
\* application leaves; a -= b on an edge that is not there changes nothing;
\* a >> b then a -= b on a state without the edge gives that state back.
C17_EdgeOpsIdempotent ==
    /\ clast.op = ">>" =>
          /\ operator_rshift(cfg, clast.a, clast.b) = cfg
          /\ Count(NextOf(cfg, clast.a), clast.b) = 1
          /\ Count(PrevOf(cfg, clast.b), clast.a) = 1
          /\ ~HasEdge(cprev, clast.a, clast.b) => operator_minus(cfg, clast.a, clast.b) = cprev
    /\ clast.op = "-=" =>
          /\ operator_minus(cfg, clast.a, clast.b) = cfg
          /\ ~HasEdge(cprev, clast.a, clast.b) => cfg = cprev

\* a >> b on an edge that is there, in lists that hold another label too
C17_Witness ==
    /\ clast.op = ">>"
    /\ Contains(NextOf(cprev, clast.a), clast.b)
    /\ Len(NextOf(cprev, clast.a)) > 1
    /\ Len(PrevOf(cprev, clast.b)) > 1

\* the labels reachable from a label of from over the forward edges
RECURSIVE ReachFwd(_, _)
ReachFwd(c, from) ==
    LET more == from \cup {e[2] : e \in {x \in CfgEdges(c) : x[1] \in from}}
    IN  IF more = from THEN from ELSE ReachFwd(c, more)

Returned(op) == clast.op = op /\ clast.outcome = "ok"

\* C18: after simplify(), every remaining block is reachable from the entry
\* over forward edges and, if an exit is set, every remaining block reaches
\* the exit over forward edges.
C18_SimplifyLeavesLiveBlocks ==
    Returned("simplify") =>
        \A l \in BlockLabels(cfg) :
            /\ l \in ReachFwd(cfg, {cfg.m_entry})
            /\ has_exit(cfg) => cfg.m_exit \in ReachFwd(cfg, {l})

\* a simplify of a cfg_t with an exit that deleted a block not reachable
\* from the entry and a reachable block that does not reach the exit
C18_Witness ==
    /\ Returned("simplify")
    /\ has_exit(cprev)
    /\ \E l \in BlockLabels(cprev) \ BlockLabels(cfg) :
          l \notin ReachFwd(cprev, {cprev.m_entry})
    /\ \E l \in BlockLabels(cprev) \ BlockLabels(cfg) :
          /\ l \in ReachFwd(cprev, {cprev.m_entry})
          /\ cprev.m_exit \notin ReachFwd(cprev, {l})

C20_UnreachableStepSparesExit ==
    clast.op = "simplify" =>
        /\ merge_blocks(cprev).outcome = "ok" =>
              LET c1 == merge_blocks(cprev).c
              IN  \A r \in remove_unreachable_blocks(c1) :
                      /\ r.outcome = "ok"
                      /\ BlockLabels(r.c) =
                            ReachFwd(c1, {c1.m_entry}) \cup ({c1.m_exit} \cap BlockLabels(c1))
        /\ (/\ cprev.m_exit \in BlockLabels(cprev)
            /\ cprev.m_exit \notin ReachFwd(cprev, {cprev.m_entry})) =>
              /\ clast.outcome = "ok"
              /\ cfg.m_entry \in BlockLabels(cfg)
              /\ cfg.m_exit \in BlockLabels(cfg)

\* C21: on a cfg_t on which simplify() has returned, a second simplify()
\* returns and changes no block, no statement sequence and no edge.
C21_SimplifyIdempotent ==
    Returned("simplify") =>
        \A r \in simplify(cfg) : r.outcome = "ok" /\ r.c = cfg

\* a simplify() that deleted a block and left several blocks and an edge,
\* so that the second call has something to walk over
C21_Witness ==
    /\ Returned("simplify")
    /\ BlockLabels(cfg) # BlockLabels(cprev)
    /\ Cardinality(BlockLabels(cfg)) > 1
    /\ CfgEdges(cfg) # {}

(* ------------------------ claims on cfg_rev_t ------------------------- *)

\* C22: over a cfg_t with an exit, the view's entry() is the cfg_t's exit,
\* its exit() the cfg_t's entry, next_nodes(b) and prev_nodes(b) are the
\* cfg_t's prev_nodes(b) and next_nodes(b) for every block b, and a block
\* view gives the block's statements last to first; constructing the view
\* and calling entry() leave the cfg_t as it was; entry() over a cfg_t
\* without exit is fatal.
C22_ReversedView ==
    /\ (rview.made /\ has_exit(cfg)) =>
          /\ rev_entry(cfg) = Read("ok", cfg.m_exit)
          /\ rev_exit(cfg) = cfg.m_entry
          /\ \A b \in BlockLabels(cfg) :
                /\ rev_next_nodes(cfg, b) = Read("ok", PrevOf(cfg, b))
                /\ rev_prev_nodes(cfg, b) = Read("ok", NextOf(cfg, b))
          /\ \A b \in rview._rev_bbs \cap BlockLabels(cfg) :
                \A r \in rev_get_node(cfg, rview, b) :
                   LET ts == cfg.m_blocks[b].m_ts
                   IN  /\ r.outcome = "ok"
                       /\ Len(r.val.stmts) = Len(ts)
                       /\ \A i \in 1..Len(ts) : r.val.stmts[i] = ts[Len(ts) + 1 - i]
                       /\ r.val.next_blocks = PrevOf(cfg, b)
                       /\ r.val.prev_blocks = NextOf(cfg, b)
    /\ clast.op \in {"cfg_rev_t", "rev.entry"} => cfg = cprev
    /\ clast.op = "rev.entry" =>
          IF has_exit(cprev) THEN clast.outcome = "ok" /\ clast.a = cprev.m_exit
          ELSE clast.outcome = "fatal"

\* entry() has returned on a view of a cfg_t that has an edge and a block
\* of two statements
C22_Witness ==
    /\ clast.op = "rev.entry"
    /\ clast.outcome = "ok"
    /\ CfgEdges(cfg) # {}
    /\ \E b \in rview._rev_bbs \cap BlockLabels(cfg) :
          /\ Len(cfg.m_blocks[b].m_ts) > 1
          /\ cfg.m_blocks[b].m_ts[1] # cfg.m_blocks[b].m_ts[2]

(* ------------------ claims on AdaptGraph's vertices ------------------- *)

\* the vertex ids in use of a graph, read from is_free alone
LiveIds(gr) == {v \in 0..(Len(gr.is_free) - 1) : ~gr.is_free[v + 1]}

\* C23: new_vertex() returns an id that was not live before and is live
\* after, with no incident edge.  With a non-empty free list the id is the
\* one at the back of the list and succ, pred and is_free keep their
\* lengths; otherwise the id is the former vertex count and the three grow
\* by exactly one.  The three have equal lengths.
C23_NewVertexFresh ==
    glast.op = "new_vertex" =>
        LET v == glast.s
        IN  /\ v \notin LiveIds(gprev)
            /\ v \in LiveIds(g)
            /\ \A e \in Edges(g) : e[1] # v /\ e[2] # v
            /\ smap_size(g._succs[v + 1]) = 0 /\ smap_size(g._preds[v + 1]) = 0
            /\ Len(g._succs) = Len(g._preds) /\ Len(g._preds) = Len(g.is_free)
            /\ IF Len(gprev.free_id) > 0
               THEN /\ v = gprev.free_id[Len(gprev.free_id)]
                    /\ g.free_id = SubSeq(gprev.free_id, 1, Len(gprev.free_id) - 1)
                    /\ Len(g._succs) = Len(gprev._succs)
                    /\ Len(g._preds) = Len(gprev._preds)
                    /\ Len(g.is_free) = Len(gprev.is_free)
               ELSE /\ v = Len(gprev._succs)
                    /\ Len(g._succs) = Len(gprev._succs) + 1
                    /\ Len(g._preds) = Len(gprev._preds) + 1
                    /\ Len(g.is_free) = Len(gprev.is_free) + 1

\* new_vertex() has taken an id from a free list of several ids, in a graph
\* that holds an edge
C23_Witness ==
    /\ glast.op = "new_vertex"
    /\ Len(gprev.free_id) > 1
    /\ Edges(g) # {}
    /\ glast.s < Len(gprev._succs) - 1

\* C24: in every state new_vertex, growTo, forget, add_edge and clear reach,
\* v is on free_id exactly when is_free[v], free_id holds no id twice, and
\* the succ and pred maps of every free vertex are empty.
C24_FreeListConsistent ==
    /\ \A v \in 0..(Len(g.is_free) - 1) : Contains(g.free_id, v) <=> g.is_free[v + 1]
    /\ \A i, j \in 1..Len(g.free_id) : g.free_id[i] = g.free_id[j] => i = j
    /\ \A i \in 1..Len(g.free_id) : g.free_id[i] < Len(g.is_free)
    /\ \A v \in 0..(Len(g.is_free) - 1) :
          g.is_free[v + 1] => smap_size(g._succs[v + 1]) = 0 /\ smap_size(g._preds[v + 1]) = 0

\* a vertex with an edge in and an edge out was forgotten twice, a second
\* vertex is free as well
C24_Witness ==
    /\ glast.op = "forget"
    /\ gprev.is_free[glast.s + 1]
    /\ Len(g.free_id) > 1
    /\ Edges(g) # {}

(* -------------------- claims on copies of a map ----------------------- *)

\* C25: a copy holds what the original holds and is consistent in itself:
\* after m = mo or the copy construction of m from mo, lookup and elem on m
\* answer for every key as mo's elements say, m has mo's size, and with a
\* sparse table every key of m has its cell in the table, holding the key's
\* position in dense.
C25_CopyIsConsistent ==
    mlast.op \in {"assign", "copy"} =>
        /\ \A k \in ProbeKeys :
              LET v == IF k \in Keys THEN PairsOf(mo)[k] ELSE NoVal
              IN  /\ smap_lookup(m, k) =
                        {IF v # NoVal THEN [found |-> TRUE, val |-> v]
                                      ELSE [found |-> FALSE, val |-> NoVal]}
                  /\ smap_elem(m, k) = {v # NoVal}
        /\ smap_size(m) = smap_size(mo)
        /\ m.has_sparse =>
              \A i \in 1..m.sz :
                 /\ m.dense[i].key < m.sparse_ub
                 /\ m.sparse[m.dense[i].key + 1] = i - 1

(* ------------------ claims on AdaptGraph's edge count ----------------- *)

\* the pairs (s, d) of vertex ids for which elem(s, d) can answer true
ElemPairs(gr) ==
    {e \in (0..(graph_size(gr) - 1)) \X (0..(graph_size(gr) - 1)) :
        TRUE \in graph_elem(gr, e[1], e[2])}

\* C26: num_edges() is the number of pairs (s, d) with elem(s, d) true, elem
\* has one answer for every pair, and is_empty() holds exactly when there is
\* no such pair; in every state add_edge of an absent edge, update_edge,
\* set_edge, forget, clear_edges and clear reach.
C26_EdgeCountMatchesElem ==
    /\ \A s, d \in 0..(graph_size(g) - 1) : Cardinality(graph_elem(g, s, d)) = 1
    /\ num_edges(g) = Cardinality(ElemPairs(g))
    /\ is_empty(g) <=> ElemPairs(g) = {}

\* forget(v) of a vertex that had a self-loop, an edge to another vertex and
\* an edge from it
C26_Witness ==
    /\ glast.op = "forget"
    /\ \E u \in 0..(graph_size(gprev) - 1) :
          /\ u # glast.s
          /\ {<<glast.s, glast.s>>, <<glast.s, u>>, <<u, glast.s>>} \subseteq ElemPairs(gprev)
    /\ num_edges(g) < num_edges(gprev)

(* ---------------- claims on the decoder and the ASM Cfg --------------- *)

\* the blocks of an ASM Cfg
AsmLabels(c) == DOMAIN c.graph

\* the members of a sequence
Members(q) == {q[i] : i \in 1..Len(q)}

\* C27: the Cfg to_nondet returns has no conditional jump, and for every
\* block of the original Cfg that ends in one there are two different
\* successors of that block in the result, each of a single Assume, one of
\* the jump's condition and one of its negation, whose successors are the
\* block's original successors.
C27_NondetHasNoConditionalJump ==
    asm.built = "nondet" =>
        /\ \A x \in AsmLabels(asm.nondet) :
              \A i \in 1..Len(asm.nondet.graph[x].insts) :
                 LET inst == asm.nondet.graph[x].insts[i]
                 IN  inst.tag = "Jmp" => inst.cond.op = "always"
        /\ \A l \in AsmLabels(asm.cfg) :
              LET b == asm.cfg.graph[l]
              IN  (Len(b.insts) > 0 /\ b.insts[Len(b.insts)].tag = "Jmp"
                     /\ b.insts[Len(b.insts)].cond.op # "always") =>
                  LET cond == b.insts[Len(b.insts)].cond
                  IN  /\ l \in AsmLabels(asm.nondet)
                      /\ \E x1, x2 \in Members(asm.nondet.graph[l].nextlist) :
                            LET b1 == asm.nondet.graph[x1]
                                b2 == asm.nondet.graph[x2]
                            IN  /\ x1 # x2
                                /\ Len(b1.insts) = 1 /\ b1.insts[1].tag = "Assume"
                                /\ Len(b2.insts) = 1 /\ b2.insts[1].tag = "Assume"
                                /\ b1.insts[1].cond = cond
                                /\ b2.insts[1].cond.left = cond.left
                                /\ b2.insts[1].cond.right = cond.right
                                /\ cond.op = "EQ" /\ b2.insts[1].cond.op = "NE"
                                /\ Len(b1.nextlist) = 1 /\ Len(b2.nextlist) = 1
                                /\ b1.nextlist[1] = b.insts[Len(b.insts)].target
                                /\ {b1.nextlist[1], b2.nextlist[1]} = Members(b.nextlist)
                                /\ Members(b1.prevlist) = {l} /\ Members(b2.prevlist) = {l}
                                /\ x1 \in Members(asm.nondet.graph[b1.nextlist[1]].prevlist)
                                /\ x2 \in Members(asm.nondet.graph[b2.nextlist[1]].prevlist)

\* to_nondet has run on a Cfg with a conditional jump whose target and
\* fall-through differ
C27_Witness ==
    /\ asm.built = "nondet"
    /\ \E l \in AsmLabels(asm.cfg) :
          /\ HasCondJmp(asm.cfg, l)
          /\ Len(asm.cfg.graph[l].nextlist) = 2

\* the indexes of the words the decoder has consumed as the first word of
\* an lddw pair
DecodedLddw ==
    {i \in InstStarts(asm.dec.prog, 0) :
        /\ asm.dec.prog[i + 1].opcode = EBPF_OP_LDDW
        /\ i < asm.dec.pc}

\* C28: an lddw pair at index i decodes to exactly one instruction, labelled
\* i, whose 64-bit immediate has the first word's imm, taken as unsigned 32
\* bits, as its low half and the second word's imm as its high half; no
\* instruction is labelled i + 1, and the instruction after it is labelled
\* i + 2.  The immediates 0x12345678 and 0x00000012 give 0x0000001212345678.
C28_LddwCombinesTwoWords ==
    asm.dec.stage # "error" =>
        \A i \in DecodedLddw :
           LET at == {n \in 1..Len(asm.dec.insts) : asm.dec.insts[n].label.pc = i}
               lo == asm.dec.prog[i + 1].imm
               hi == asm.dec.prog[i + 2].imm
               lo16 == lo % 65536
               lo32 == (lo \div 65536) % 65536
               hi16 == hi % 65536
               hi32 == (hi \div 65536) % 65536
           IN  /\ Cardinality(at) = 1
               /\ \A n \in at :
                     /\ asm.dec.insts[n].inst.tag = "Bin" /\ asm.dec.insts[n].inst.lddw
                     /\ asm.dec.insts[n].inst.v =
                           <<lo16 % 256, lo16 \div 256, lo32 % 256, lo32 \div 256,
                             hi16 % 256, hi16 \div 256, hi32 % 256, hi32 \div 256>>
                     /\ (lo = 305419896 /\ hi = 18) =>
                           asm.dec.insts[n].inst.v = <<120, 86, 52, 18, 18, 0, 0, 0>>
                     /\ n < Len(asm.dec.insts) => asm.dec.insts[n + 1].label.pc = i + 2
               /\ \A n \in 1..Len(asm.dec.insts) : asm.dec.insts[n].label.pc # i + 1

\* the decoder has finished a program that has the pair 0x12345678,
\* 0x00000012 at index 0 and an instruction behind it
C28_Witness ==
    /\ asm.dec.stage = "decoded"
    /\ 0 \in DecodedLddw
    /\ asm.dec.prog[1].imm = 305419896 /\ asm.dec.prog[2].imm = 18
    /\ Len(asm.dec.insts) > 1

\* the indexes of the jumps the decoder has come to
JumpsMet ==
    {pc \in InstStarts(asm.dec.prog, 0) :
        /\ asm.dec.prog[pc + 1].opcode \in {EBPF_OP_JA, EBPF_OP_JEQ_IMM}
        /\ pc < asm.dec.pc \/ (pc = asm.dec.pc /\ asm.dec.stage = "error")}

\* whether index t is outside the program or the second word of an lddw pair
BadTarget(prog, t) ==
    \/ t < 0
    \/ t >= Len(prog)
    \/ t >= 1 /\ (t - 1) \in InstStarts(prog, 0) /\ prog[t].opcode = EBPF_OP_LDDW

\* C29: a jump at index pc with offset off is decoded to a jump to the label
\* pc + off + 1; when that index is outside the program or is the second
\* word of an lddw pair the decoder returns an error, no instruction
\* sequence and no Undefined instruction in place of the jump.
C29_JumpTargetsValidated ==
    /\ asm.dec.stage = "error" => asm.dec.insts = <<>>
    /\ \A pc \in JumpsMet :
          LET t == pc + asm.dec.prog[pc + 1].offset + 1
          IN  /\ BadTarget(asm.dec.prog, t) => asm.dec.stage = "error"
              /\ asm.dec.stage # "error" =>
                    \E n \in 1..Len(asm.dec.insts) :
                       /\ asm.dec.insts[n].label = primary(pc)
                       /\ asm.dec.insts[n].inst.tag = "Jmp"
                       /\ asm.dec.insts[n].inst.target = primary(t)

\* the decoder has stopped at a jump into the second word of an lddw pair
C29_Witness ==
    /\ asm.dec.stage = "error"
    /\ \E pc \in JumpsMet :
          LET t == pc + asm.dec.prog[pc + 1].offset + 1
          IN  /\ pc = asm.dec.pc
              /\ t >= 1 /\ t < Len(asm.dec.prog)
              /\ BadTarget(asm.dec.prog, t)

(* --------------------- claims on the merge pass ----------------------- *)

\* the blocks of before whose statements block p of after holds after a
\* merge pass, in their order: p, then for as long as the last one has a
\* single successor that the pass deleted, that successor
RECURSIVE MergedInto(_, _, _)
MergedInto(before, after, chain) ==
    LET last == chain[Len(chain)]
        ns == NextOf(before, last)
    IN  IF Len(ns) = 1 /\ ns[1] \notin BlockLabels(after) /\ ~Contains(chain, ns[1])
        THEN MergedInto(before, after, Append(chain, ns[1]))
        ELSE chain

\* the statements of the blocks of chain, one block after the other
RECURSIVE StatementsOf(_, _)
StatementsOf(c, chain) ==
    IF chain = <<>> THEN <<>>
    ELSE c.m_blocks[Head(chain)].m_ts \o StatementsOf(c, Tail(chain))

\* C30: a merge pass that returns only appends.  Every block p it leaves
\* holds its former statements followed by those of the blocks merged into
\* it, each block's in their former order and the blocks in the order of
\* the chain p -> c1 -> c2 ..; every block the pass deleted is in exactly
\* one such chain, so no statement is lost or duplicated; and the successors
\* of p are those the last block of its chain had, the chain's inner edges
\* being gone.
C30_MergeOnlyAppends ==
    Returned("merge_blocks") =>
        /\ BlockLabels(cfg) \subseteq BlockLabels(cprev)
        /\ \A p \in BlockLabels(cfg) :
              LET chain == MergedInto(cprev, cfg, <<p>>)
                  last == chain[Len(chain)]
              IN  /\ cfg.m_blocks[p].m_ts = StatementsOf(cprev, chain)
                  /\ \A i \in 1..(Len(chain) - 1) :
                        /\ NextOf(cprev, chain[i]) = <<chain[i + 1]>>
                        /\ PrevOf(cprev, chain[i + 1]) = <<chain[i]>>
                  /\ {s \in BlockLabels(cfg) : Contains(NextOf(cfg, p), s)} =
                        {s \in BlockLabels(cfg) :
                            \E d \in Range(NextOf(cprev, last)) :
                               Contains(MergedInto(cprev, cfg, <<s>>), d)}
        /\ \A l \in BlockLabels(cprev) :
              Cardinality({p \in BlockLabels(cfg) :
                              Contains(MergedInto(cprev, cfg, <<p>>), l)}) = 1

\* a merge pass has put two blocks of two statements each behind the
\* statements of a third
C30_Witness ==
    /\ Returned("merge_blocks")
    /\ \E p \in BlockLabels(cfg) :
          /\ Len(MergedInto(cprev, cfg, <<p>>)) > 2
          /\ Len(cfg.m_blocks[p].m_ts) > 5
    /\ Cardinality(BlockLabels(cfg)) > 1


(* ------------------- claims on the merge step's choice ----------------- *)

\* C31: merge_blocks() on a cfg_t with symmetric edges returns: the pass
\* never calls remove on the entry block or on the declared exit block, so
\* it never ends in the CRAB_ERROR of remove.
C31_MergeSparesEntryAndExit ==
    clast.op = "merge_blocks" => clast.outcome = "ok"


(* ---------------------- claims on termination ------------------------- *)

\* the call of simplify() in progress has ended: it returned or it ended in
\* CRAB_ERROR
SimplifyEnded == trav.phase \in {"done", "fatal"}

\* the result of the call by call run is a result of simplify()
RunAgreesWithSimplify ==
    SimplifyEnded =>
        [c |-> cfg, outcome |-> IF trav.phase = "done" THEN "ok" ELSE "fatal"]
            \in simplify(cprev)

\* the calls the frames of a stack have still to make, and their returns
RECURSIVE FrameCalls(_)
FrameCalls(stack) ==
    IF stack = <<>> THEN 0
    ELSE (Len(Head(stack).ns) - Head(stack).i + 1) + 1 + FrameCalls(Tail(stack))

\* for the blocks of ls: the call that gets past the visited check, the
\* frame it pushes and the calls of that frame
RECURSIVE BlockCalls(_, _, _)
BlockCalls(c, rev, ls) ==
    IF ls = {} THEN 0
    ELSE LET l == CHOOSE x \in ls : TRUE
         IN  Len(next_nodes(c, rev, l)) + 2 + BlockCalls(c, rev, ls \ {l})

\* more than a pass over TravLabels has to do when it starts
PassCalls == (MaxTravLabel + 1) * (MaxTravLabel + 1) + 2 * (MaxTravLabel + 1) + 3

\* a bound on the steps the call of simplify() in progress has still to take
StepsLeft(t, c) ==
    IF t.phase \in {"done", "fatal"} THEN 0
    ELSE LET left == CASE t.phase = "merge1" -> 5
                       [] t.phase = "unreachable" -> 4
                       [] t.phase = "useless" -> 3
                       [] t.phase = "merge2" -> 2
                       [] t.phase = "merge3" -> 1
         IN  left * PassCalls + FrameCalls(t.stack)
                 + BlockCalls(c, t.phase = "useless", BlockLabels(c) \ t.visited)

\* C32: simplify() terminates on every finite cfg_t with symmetric edges,
\* cycles and self-loops included.  In each of its passes every label gets
\* past the visited check at most once, although merge_blocks_rec erases a
\* merged block from visited; the recursion is never deeper than two frames
\* per block, which is below the depth the recursion is followed to, so a
\* call that has not ended can take its next step; and every step lowers
\* StepsLeft, a number that is never negative, so the steps run out and the
\* call ends (it returns or ends in CRAB_ERROR).
C32_SimplifyTerminates ==
    /\ [](/\ \A l \in DOMAIN trav.entered : trav.entered[l] <= 1
          /\ Len(trav.stack) <= 2 * Cardinality(BlockLabels(cprev)) + 1
          /\ Len(trav.stack) < TravDepthCap
          /\ StepsLeft(trav, cfg) >= 0)
    /\ [][StepsLeft(trav', cfg') < StepsLeft(trav, cfg)]_vars

\* simplify() has returned on a cfg_t without an exit whose blocks were all
\* reachable, one of them on a cycle and one with a self-loop; a block is
\* gone, so it was merged and erased from visited
C32_Witness ==
    /\ trav.phase = "done"
    /\ cprev.m_exit = NoExit
    /\ ReachFwd(cprev, {cprev.m_entry}) = BlockLabels(cprev)
    /\ \E a, b \in BlockLabels(cprev) :
          a # b /\ HasEdge(cprev, a, b) /\ a \in ReachFwd(cprev, {b})
    /\ \E a \in BlockLabels(cprev) : HasEdge(cprev, a, a)
    /\ BlockLabels(cfg) # BlockLabels(cprev)


(* ------------------ claims on the last merge pass --------------------- *)

\* the blocks merge_blocks_rec merges when it is called on them
Mergeable(c) ==
    {l \in BlockLabels(c) :
        /\ has_one_child(c, l)
        /\ has_one_parent(c, l)
        /\ has_one_child(c, c.m_blocks[l].m_prev[1])}

\* the two halves of the call make up simplify()
LastMergeAgreesWithSimplify ==
    clast.op = "init" =>
        simplify(cfg) = {IF h.outcome # "ok" THEN h ELSE merge_blocks(h.c) :
                            h \in simplify_upto_last(cfg)}

\* C33: the third merge_blocks() call of simplify() never changes the cfg_t:
\* when the second call has returned, no block reachable from the entry has
\* exactly one successor and exactly one predecessor whose only successor it
\* is, and the third call returns with every block, statement and edge as it
\* was.
C33_ThirdMergeChangesNothing ==
    clast.op = "simplify: third merge" =>
        /\ Mergeable(cprev) \cap ReachFwd(cprev, {cprev.m_entry}) = {}
        /\ clast.outcome = "ok"
        /\ cfg = cprev

\* the third merge_blocks() has returned on a cfg_t with an exit in which an
\* earlier merge_blocks() had put a block's statement behind the entry's, and
\* which has a block left behind the entry
C33_Witness ==
    /\ clast.op = "simplify: third merge"
    /\ clast.outcome = "ok"
    /\ Len(cfg.m_blocks[cfg.m_entry].m_ts) > 1
    /\ has_exit(cfg) /\ cfg.m_exit # cfg.m_entry
    /\ cfg.m_blocks[cfg.m_entry].m_next = <<cfg.m_exit>>


(* ------------------- claims on the weight slots ----------------------- *)

\* C34: distinct live edges never share a weight slot: in every graph
\* reached by new_vertex, add_edge on absent edges, update_edge, set_edge,
\* forget and clear_edges, two different edges have different weight
\* indices.
C34_EdgesHaveOwnSlots ==
    \A e1, e2 \in Edges(g) :
       e1 # e2 => SlotOf(g, e1[1], e1[2]) # SlotOf(g, e2[1], e2[2])

\* C35: every index on free_widx is a valid, unused slot: it is smaller than
\* the length of _ws, it is on the list once, and no live edge has it.
C35_FreeSlotsValid ==
    /\ \A i \in 1..Len(g.free_widx) :
          /\ g.free_widx[i] < Len(g._ws)
          /\ \A j \in 1..Len(g.free_widx) : g.free_widx[i] = g.free_widx[j] => i = j
          /\ \A e \in Edges(g) : SlotOf(g, e[1], e[2]) # g.free_widx[i]


(* ---------------- claims on AdaptSMap's copy assignment ---------------- *)

\* C36: after a = b, a holds exactly b's (key, value) pairs; if a has a
\* sparse table, every key k of a is below a.sparse_ub and sparse[k] is the
\* position of k in dense; and no write of the assignment went to a cell at
\* or beyond sparse_ub.
C36_AssignKeepsSparseLargeEnough ==
    mlast.op = "assign" =>
        /\ PairsOf(m) = PairsOf(mo)
        /\ m.sz = mo.sz
        /\ m.has_sparse =>
              \A i \in 1..m.sz :
                 /\ m.dense[i].key < m.sparse_ub
                 /\ m.sparse[m.dense[i].key + 1] = i - 1
        /\ mlast.outcome = "ok"


(* ------------------- claims on AdaptSMap's remove --------------------- *)

\* the position (1-based) of key k in the dense buffer of mp
PosOf(mp, k) == CHOOSE i \in 1..mp.sz : mp.dense[i].key = k

\* C37: remove(k) of a present key is a swap-remove: the element that was
\* last in dense takes the removed element's position and, with a sparse
\* table, its sparse cell holds that position; the size drops by one; the
\* first size cells of dense hold the remaining elements, each key once; every
\* other element keeps its position and value; removing the last element
\* moves nothing.
C37_RemoveIsSwapRemove ==
    mlast.op = "remove" =>
        LET n == mprev.sz
            at == PosOf(mprev, mlast.key)
        IN  /\ m.sz = n - 1
            /\ \A i \in 1..(n - 1) :
                  m.dense[i] = IF i = at THEN mprev.dense[n] ELSE mprev.dense[i]
            /\ (m.has_sparse /\ at < n) => m.sparse[mprev.dense[n].key + 1] = at - 1
            /\ \A i, j \in 1..m.sz :
                  /\ m.dense[i] # NoElt
                  /\ m.dense[i].key # mlast.key
                  /\ m.dense[i].key = m.dense[j].key => i = j
            /\ m.has_sparse = mprev.has_sparse /\ m.dense_maxsz = mprev.dense_maxsz

\* remove(k) has moved the last element into the place of an element in the
\* middle of a map with a sparse table
C37_Witness ==
    /\ mlast.op = "remove"
    /\ m.has_sparse
    /\ PosOf(mprev, mlast.key) > 1
    /\ PosOf(mprev, mlast.key) < mprev.sz
    /\ m.dense[PosOf(mprev, mlast.key)] = mprev.dense[mprev.sz]

\* the map with the cell sparse[k] holding v
WithCell(mp, k, v) == [mp EXCEPT !.sparse[k + 1] = v]

\* the values a sparse cell can hold: never written, or any index; m.sz
\* stands for every index at or beyond the size
CellValues(mp) == {Uninit} \cup 0..mp.sz

\* C38: in sparse mode, for every key k < sparse_ub that is not in the map
\* and for every value the cell sparse[k] can hold (unwritten, stale, at or
\* beyond the size), elem(k) returns false and lookup(k) returns false and
\* leaves its output value unwritten
C38_AbsenceWhateverTheCellHolds ==
    m.has_sparse =>
        \A k \in Keys :
            (k < m.sparse_ub /\ live[k] = NoVal) =>
                /\ smap_elem(m, k) = {FALSE}
                /\ smap_lookup(m, k) = {[found |-> FALSE, val |-> NoVal]}
                /\ \A v \in CellValues(m) :
                    /\ smap_elem(WithCell(m, k, v), k) = {FALSE}
                    /\ smap_lookup(WithCell(m, k, v), k) =
                            {[found |-> FALSE, val |-> NoVal]}

\* remove(k) in sparse mode left the cell sparse[k] holding the index of a
\* live element, and another absent key has a cell that was never written
C38_Witness ==
    /\ m.has_sparse
    /\ mlast.op = "remove"
    /\ mlast.key < m.sparse_ub
    /\ m.sparse[mlast.key + 1] # Uninit
    /\ m.sparse[mlast.key + 1] < m.sz
    /\ \E k \in Keys : k < m.sparse_ub /\ live[k] = NoVal /\ m.sparse[k + 1] = Uninit

\* C39: a view follows the cfg_t it was built from: get_node(l) on the view
\* succeeds with the reversed view of block l for every block the cfg_t has
\* at the time of the call, blocks inserted after the view was built
\* included, and the view keeps no entry for a block removed since
C39_ViewIsDerivedNotCached ==
    rview.made =>
        /\ \A l \in BlockLabels(cfg) :
              rev_get_node(cfg, rview, l) =
                  {Read("ok", basic_block_rev(cfg.m_blocks, l))}
        /\ rview._rev_bbs \subseteq BlockLabels(cfg)
        /\ rview.freed = {}
        /\ (clast.op = "rev.get_node" /\ clast.a \in BlockLabels(cfg)) =>
              clast.outcome = "ok"

====
